---- MODULE Spec2Model ----
(***************************************************************************)
(* Model of cashctrl_api.CashCtrlClient (src/cashctrl_api/client.py):      *)
(* list_categories and update_categories against a remote category tree,   *)
(* and mirror_directory against the remote files.                          *)
(*                                                                         *)
(* A Python string is a sequence of one-character strings, so that         *)
(* str.startswith, str.split, str.replace, re.fullmatch and the ordering   *)
(* of strings are computed as the code computes them.                      *)
(*                                                                         *)
(* Spec       update_categories, once and once again                       *)
(* NameSpec   a category name listed and created again from its path       *)
(* ListSpec   list_categories on arbitrary trees                           *)
(* MirrorSpec mirror_directory, once and once again                        *)
(***************************************************************************)
EXTENDS Integers, Sequences, FiniteSets, TLC

VARIABLES
    resource,   \* the resource type whose category tree the remote holds
    remote,     \* the remote category tree: a set of category nodes
    nextId,     \* the id the remote assigns to the next created category
    pc,         \* "idle" before the invocation, "returned" after it,
                \* "repeated" after its immediate repetition
    args,       \* arguments of the last update_categories invocation
    pre,        \* the remote tree at the start of that invocation
    log,        \* remote calls that invocation issued, in order
    err,        \* how that invocation ended
    first,      \* in "repeated": the outcome of the first invocation
    tree_data,      \* list_categories: the kind of the 'data' field of the
                    \* response (index 0) and of every node (index id)
    with_system,    \* list_categories: the include_system argument
    category_table, \* list_categories: the table returned
    category_name,  \* name of a remote category
    category_path,  \* the path list_categories gives that category
    restored_name,  \* the name the create step sends for that path
    local_dir,      \* mirror_directory: the files of the local directory
    remote_files,   \* the files the remote holds
    recycle_bin,    \* the deleted files the remote keeps in its recycle bin
    files_before,   \* the remote files at the start of the last invocation
    rpc,            \* request_with_retry: position of the call
    attempt,        \* request_with_retry: the local variable attempt
    iteration,      \* request_with_retry: iterations of the for loop begun
    response,       \* request_with_retry: the local variable response
    requests_sent,           \* request_with_retry: outcomes of the requests requests_sent, in order
    raised,         \* request_with_retry: the exception the call raised
    return_value,       \* the value the last call returned
    new_file_id,    \* upload_file: the file id of the prepare response
    write_url,      \* upload_file: the write URL of the prepare response
    files_cache,        \* CachedCashCtrlClient._files_cache
    files_cache_time,   \* CachedCashCtrlClient._files_cache_time
    cache_timeout,      \* CachedCashCtrlClient._cache_timeout
    clock,              \* datetime.now(), in seconds
    cache_before,       \* the files cache and its time before the last call
    file_system,    \* list_directory: the entries of the local file system
    session_id,     \* ProffixAPIClient: the stored session id
    frames,         \* ProffixAPIClient: the calls of request and logout in progress
    traffic,        \* ProffixAPIClient: the requests sent to the server, in order
    ended           \* ProffixAPIClient: how the call of the caller ended

\* State of update_categories, of list_categories, of the name round trip and
\* of mirror_directory.
updVars == <<nextId, args, pre, log, first>>
listVars == <<tree_data, with_system, category_table>>
nameVars == <<category_name, category_path, restored_name>>
fileVars == <<local_dir, remote_files, recycle_bin, files_before>>

\* State of request_with_retry, of upload_file, of the cached client and of
\* list_directory.
retryVars == <<rpc, attempt, iteration, response, requests_sent, raised>>
uploadVars == <<new_file_id, write_url>>
cacheVars == <<files_cache, files_cache_time, cache_timeout, clock, cache_before>>
proffixVars == <<session_id, frames, traffic, ended>>
clientVars == <<retryVars, return_value, uploadVars, cacheVars, file_system, proffixVars>>

vars == <<resource, remote, pc, err, updVars, listVars, nameVars, fileVars, clientVars>>

----------------------------------------------------------------------------
(* Bounds of the model *)

MaxInitNodes == 3     \* categories of the initial remote tree (system root of 'file' not counted)
MaxTargets == 2       \* paths in one target
MaxFailAt == 3        \* a remote call up to this position may fail
MaxNameLen == 3       \* characters of a category name in the name round trip
MaxListNodes == 3     \* nodes of the tree handed to list_categories
MaxLocalFiles == 2    \* files of the local directory that is mirrored
MaxRemoteFiles == 2   \* files the remote holds before the directory is mirrored

----------------------------------------------------------------------------
(* Python strings *)

\* Code points of the characters used, for the ordering of strings.
Ord(c) ==
    CASE c = "/" -> 47 [] c = "\\" -> 92 [] c = "a" -> 97 [] c = "b" -> 98
      [] c = "f" -> 102 [] c = "g" -> 103 [] c = "r" -> 114

\* s < t for Python strings (lexicographic by code point).
RECURSIVE StrLess(_, _)
StrLess(s, t) ==
    IF t = <<>> THEN FALSE
    ELSE IF s = <<>> THEN TRUE
    ELSE IF s[1] = t[1] THEN StrLess(Tail(s), Tail(t))
    ELSE Ord(s[1]) < Ord(t[1])

\* str.startswith
StartsWith(s, p) == Len(p) <= Len(s) /\ SubSeq(s, 1, Len(p)) = p

\* str.replace(old, new) for one-character old and new
Replace(s, old, new) == [i \in 1..Len(s) |-> IF s[i] = old THEN new ELSE s[i]]

\* Mutant of Escape: only the first slash is replaced.
EscapeFirst(name) ==
    [i \in 1..Len(name) |->
        IF name[i] = "/" /\ (\A j \in 1..(i - 1) : name[j] # "/") THEN "\\" ELSE name[i]]

\* node['text'].replace('/', '\\') in flatten_nodes
Escape(name) == Replace(name, "/", "\\")

\* nodes[i].replace("\\", "/") in the create step
Unescape(segment) == Replace(segment, "\\", "/")

\* str.split("/"): the list of segments, empty segments included
RECURSIVE SplitFrom(_, _, _)
SplitFrom(s, i, cur) ==
    IF i > Len(s) THEN <<cur>>
    ELSE IF s[i] = "/" THEN <<cur>> \o SplitFrom(s, i + 1, <<>>)
    ELSE SplitFrom(s, i + 1, Append(cur, s[i]))

Split(s) == SplitFrom(s, 1, <<>>)

\* "/".join(segments)
RECURSIVE Join(_)
Join(segs) ==
    IF segs = <<>> THEN <<>>
    ELSE IF Len(segs) = 1 THEN segs[1]
    ELSE segs[1] \o <<"/">> \o Join(Tail(segs))

\* re.fullmatch("/[^/]*", path): a single-segment (root) path
IsRootPath(path) ==
    /\ Len(path) >= 1
    /\ path[1] = "/"
    /\ \A i \in 2..Len(path) : path[i] # "/"

\* str.replace("^/+[^/]+", "", regex=True): drop the first path segment
StripFirstSegment(path) ==
    LET slashes == CHOOSE k \in 0..Len(path) :
                      /\ \A i \in 1..k : path[i] = "/"
                      /\ (k < Len(path) => path[k + 1] # "/")
        name == CHOOSE k \in 0..(Len(path) - slashes) :
                      /\ \A i \in 1..k : path[slashes + i] # "/"
                      /\ (slashes + k < Len(path) => path[slashes + k + 1] = "/")
    IN  IF slashes >= 1 /\ name >= 1
        THEN SubSeq(path, slashes + name + 1, Len(path))
        ELSE path

----------------------------------------------------------------------------
(* The remote category tree and list_categories *)

\* A category node of the remote: parentId 0 stands for "no parent" (null),
\* number 0 for "no number" (resources other than 'account').
Node(id, text, parentId, number, isSystem) ==
    [id |-> id, text |-> text, parentId |-> parentId, number |-> number,
     isSystem |-> isSystem]

\* The children of a node in the nested tree the remote returns ('data').
Children(tree, parentId) == {n \in tree : n.parentId = parentId}

\* Mutant of flatten_nodes: the path of a node leaves out its parent's path.
RECURSIVE flatten_nodes_flat(_, _, _)
flatten_nodes_flat(tree, parentId, parent_path) ==
    UNION { LET path == <<"/">> \o Escape(node.text)
            IN  flatten_nodes_flat(tree, node.id, path)
                    \cup {[path |-> path, id |-> node.id, text |-> node.text,
                           parentId |-> node.parentId, number |-> node.number,
                           isSystem |-> node.isSystem]}
          : node \in Children(tree, parentId) }

\* flatten_nodes: one row per node, path = parent path + "/" + escaped name.
RECURSIVE flatten_nodes(_, _, _)
flatten_nodes(tree, parentId, parent_path) ==
    UNION { LET path == parent_path \o <<"/">> \o Escape(node.text)
            IN  flatten_nodes(tree, node.id, path)
                    \cup {[path |-> path, id |-> node.id, text |-> node.text,
                           parentId |-> node.parentId, number |-> node.number,
                           isSystem |-> node.isSystem]}
          : node \in Children(tree, parentId) }

\* Mutant of SortByPath: the rows in ascending order of id.
RECURSIVE SortById(_)
SortById(rows) ==
    IF rows = {} THEN <<>>
    ELSE LET least == CHOOSE r \in rows : \A q \in rows : q.id >= r.id
         IN  <<least>> \o SortById(rows \ {least})

\* df.sort_values("path"): the rows as a sequence in ascending path order.
RECURSIVE SortByPath(_)
SortByPath(rows) ==
    IF rows = {} THEN <<>>
    ELSE LET least == CHOOSE r \in rows : \A q \in rows : ~StrLess(q.path, r.path)
         IN  <<least>> \o SortByPath(rows \ {least})

\* Mutant of list_categories: the first segment is stripped for every resource.
list_categories_strip_all(tree, res, include_system) ==
    LET rows == flatten_nodes(tree, 0, <<>>)
        kept == IF include_system THEN rows ELSE {r \in rows : ~r.isSystem}
        shown == IF ~include_system
                 THEN {[r EXCEPT !.path = StripFirstSegment(r.path)] : r \in kept}
                 ELSE kept
    IN  SortByPath(shown)

\* list_categories(resource, include_system)
list_categories(tree, res, include_system) ==
    LET rows == flatten_nodes(tree, 0, <<>>)
        kept == IF include_system THEN rows ELSE {r \in rows : ~r.isSystem}
        shown == IF ~include_system /\ res = "file"
                 THEN {[r EXCEPT !.path = StripFirstSegment(r.path)] : r \in kept}
                 ELSE kept
    IN  SortByPath(shown)

\* The set of paths of a listing.
Paths(listing) == {listing[i].path : i \in 1..Len(listing)}

----------------------------------------------------------------------------
(* The remote service, as the client's comments and tests describe it *)

\* The system root every 'file' category hangs under.
FileRootId == 1

\* {resource}/category/delete.json?ids=...: the ids are deleted in the order
\* given; a category that still has children, an unknown id or an account
\* root category is refused, and a refused call changes nothing.
RECURSIVE DeleteAll(_, _, _)
DeleteAll(tree, res, ids) ==
    IF ids = <<>> THEN [ok |-> TRUE, tree |-> tree]
    ELSE LET found == {n \in tree : n.id = ids[1]}
         IN  IF \/ found = {}
                \/ Children(tree, ids[1]) # {}
                \/ (res = "account" /\ \E n \in found : n.parentId = 0)
             THEN [ok |-> FALSE, tree |-> tree]
             ELSE DeleteAll(tree \ found, res, Tail(ids))

RemoteDelete(tree, res, ids) ==
    LET r == DeleteAll(tree, res, ids)
    IN  IF r.ok THEN r ELSE [ok |-> FALSE, tree |-> tree]

\* account/category/update.json: sets name, number and parent of a category.
RemoteUpdate(tree, id, name, number, parentId) ==
    IF \E n \in tree : n.id = id
    THEN [ok |-> TRUE,
          tree |-> {IF n.id = id
                    THEN [n EXCEPT !.text = name, !.number = number,
                                   !.parentId = parentId]
                    ELSE n : n \in tree}]
    ELSE [ok |-> FALSE, tree |-> tree]

\* {resource}/category/create.json: a new category with a fresh id; the
\* parent must exist; a 'file' category without parent hangs under the
\* system root.
RemoteCreate(tree, res, id, name, parentId, number) ==
    LET parent == IF parentId = 0 /\ res = "file" THEN FileRootId ELSE parentId
    IN  IF parent # 0 /\ ~\E n \in tree : n.id = parent
        THEN [ok |-> FALSE, tree |-> tree]
        ELSE [ok |-> TRUE,
              tree |-> tree \cup {Node(id, name, parent, number, FALSE)}]

----------------------------------------------------------------------------
(* update_categories *)

\* One remote call of the log. result is "ok", "refused" (the remote
\* answered with an error) or "failed" (the request itself failed).
Call(op, ids, id, path, name, number, parentId, result) ==
    [op |-> op, ids |-> ids, id |-> id, path |-> path, name |-> name,
     number |-> number, parentId |-> parentId, result |-> result]

\* self.post / self.get: the call is issued and logged; it raises when the
\* request fails (position failAt of the invocation) or the remote refuses.
Request(st, failAt, call, answer) ==
    LET result == IF st.n + 1 = failAt THEN "failed"
                  ELSE IF answer.ok THEN "ok" ELSE "refused"
    IN  [st EXCEPT !.n = st.n + 1,
                   !.log = Append(st.log, [call EXCEPT !.result = result]),
                   !.err = IF result = "ok" THEN "ok" ELSE "ApiError",
                   !.tree = IF result = "ok" THEN answer.tree ELSE st.tree]

\* Mutant of SortReverse: the paths in ascending order (sort without reverse).
RECURSIVE SortForward(_)
SortForward(paths) ==
    IF paths = {} THEN <<>>
    ELSE LET least == CHOOSE p \in paths : \A q \in paths : ~StrLess(q, p)
         IN  <<least>> \o SortForward(paths \ {least})

\* to_delete.sort(reverse=True): descending path order.
RECURSIVE SortReverse(_)
SortReverse(paths) ==
    IF paths = {} THEN <<>>
    ELSE LET greatest == CHOOSE p \in paths : \A q \in paths : ~StrLess(p, q)
         IN  <<greatest>> \o SortReverse(paths \ {greatest})

\* target_series.str.startswith(node).any()
Covered(target, node) == \E t \in target : StartsWith(t, node)

\* Mutant of to_delete: a category is kept only if it is a target path itself.
to_delete_not_targets(category_list, res, a) ==
    LET unnamed == {p \in Paths(category_list) : p \notin a.target}
    IN  IF a.ignore /\ res = "account"
        THEN {p \in unnamed : ~IsRootPath(p)}
        ELSE unnamed

\* Mutant of to_delete: root paths are dropped whatever the flag says.
to_delete_without_roots(category_list, res, a) ==
    {p \in Paths(category_list) : ~Covered(a.target, p) /\ ~IsRootPath(p)}

\* Mutant of to_delete: root paths are never dropped.
to_delete_with_roots(category_list, res, a) ==
    {p \in Paths(category_list) : ~Covered(a.target, p)}

\* The remote paths the delete step selects (lines 281-290).
to_delete(category_list, res, a) ==
    LET uncovered == {p \in Paths(category_list) : ~Covered(a.target, p)}
    IN  IF a.ignore /\ res = "account"
        THEN {p \in uncovered : ~IsRootPath(p)}
        ELSE uncovered

\* Mutant of DeleteStep: categories are deleted for accounts only.
DeleteStepAccountOnly(st, res, a, category_list) ==
    IF ~a.delete \/ res # "account" THEN st
    ELSE LET paths == SortReverse(to_delete(category_list, res, a))
             delete_ids == [i \in 1..Len(paths) |-> st.categories[paths[i]]]
             popped == [p \in (DOMAIN st.categories) \ to_delete(category_list, res, a)
                           |-> st.categories[p]]
         IN  IF paths = <<>> THEN st
             ELSE Request([st EXCEPT !.categories = popped], a.failAt,
                          Call("delete", delete_ids, 0, <<>>, <<>>, 0, 0, "ok"),
                          RemoteDelete(st.tree, res, delete_ids))

\* Mutant of DeleteStep: the filter of the delete step works for every
\* resource.
DeleteStepAnyResource(st, res, a, category_list) ==
    IF ~a.delete THEN st
    ELSE LET paths == SortReverse(to_delete(category_list, res, a))
             delete_ids == [i \in 1..Len(paths) |-> st.categories[paths[i]]]
             popped == [p \in (DOMAIN st.categories) \ to_delete(category_list, res, a)
                           |-> st.categories[p]]
         IN  IF paths = <<>> THEN st
             ELSE Request([st EXCEPT !.categories = popped], a.failAt,
                          Call("delete", delete_ids, 0, <<>>, <<>>, 0, 0, "ok"),
                          RemoteDelete(st.tree, res, delete_ids))

\* Mutant of DeleteStep: the delete flag is not looked at.
DeleteStepAlways(st, res, a, category_list) ==
    IF res # "account" /\ category_list # <<>>
    THEN [st EXCEPT !.err = "AttributeError"]
    ELSE LET paths == SortReverse(to_delete(category_list, res, a))
             delete_ids == [i \in 1..Len(paths) |-> st.categories[paths[i]]]
             popped == [p \in (DOMAIN st.categories) \ to_delete(category_list, res, a)
                           |-> st.categories[p]]
         IN  IF paths = <<>> THEN st
             ELSE Request([st EXCEPT !.categories = popped], a.failAt,
                          Call("delete", delete_ids, 0, <<>>, <<>>, 0, 0, "ok"),
                          RemoteDelete(st.tree, res, delete_ids))

\* if delete: ... (lines 276-297). For resources other than 'account' the
\* targets are pd.Series(target).unique(), an array without .str accessor:
\* the first evaluation of the filter raises AttributeError.
DeleteStep(st, res, a, category_list) ==
    IF ~a.delete THEN st
    ELSE IF res # "account" /\ category_list # <<>>
    THEN [st EXCEPT !.err = "AttributeError"]
    ELSE LET paths == SortReverse(to_delete(category_list, res, a))
             delete_ids == [i \in 1..Len(paths) |-> st.categories[paths[i]]]
             popped == [p \in (DOMAIN st.categories) \ to_delete(category_list, res, a)
                           |-> st.categories[p]]
         IN  IF paths = <<>> THEN st
             ELSE Request([st EXCEPT !.categories = popped], a.failAt,
                          Call("delete", delete_ids, 0, <<>>, <<>>, 0, 0, "ok"),
                          RemoteDelete(st.tree, res, delete_ids))

\* Mutant of UpdateStep: a renumbered root raises whatever the flag says.
RECURSIVE UpdateStepStrict(_, _, _, _)
UpdateStepStrict(st, a, category_list, i) ==
    IF st.err # "ok" \/ i > Len(category_list) THEN st
    ELSE LET row == category_list[i]
         IN  IF row.path \in a.target /\ row.number # a.number[row.path]
             THEN IF IsRootPath(row.path)
                  THEN [st EXCEPT !.err = "RootImmutable"]
                  ELSE UpdateStepStrict(
                         Request(st, a.failAt,
                                 Call("update", <<>>, row.id, row.path, row.text,
                                      a.number[row.path], row.parentId, "ok"),
                                 RemoteUpdate(st.tree, row.id, row.text,
                                              a.number[row.path], row.parentId)),
                         a, category_list, i + 1)
             ELSE UpdateStepStrict(st, a, category_list, i + 1)

\* Mutant of UpdateStep: a renumbered root is updated when the flag is set.
RECURSIVE UpdateStepRoots(_, _, _, _)
UpdateStepRoots(st, a, category_list, i) ==
    IF st.err # "ok" \/ i > Len(category_list) THEN st
    ELSE LET row == category_list[i]
         IN  IF row.path \in a.target /\ row.number # a.number[row.path]
             THEN IF IsRootPath(row.path) /\ ~a.ignore
                  THEN [st EXCEPT !.err = "RootImmutable"]
                  ELSE UpdateStepRoots(
                         Request(st, a.failAt,
                                 Call("update", <<>>, row.id, row.path, row.text,
                                      a.number[row.path], row.parentId, "ok"),
                                 RemoteUpdate(st.tree, row.id, row.text,
                                              a.number[row.path], row.parentId)),
                         a, category_list, i + 1)
             ELSE UpdateStepRoots(st, a, category_list, i + 1)

\* for row in category_list.to_dict("records"): ... (lines 300-316)
RECURSIVE UpdateStep(_, _, _, _)
UpdateStep(st, a, category_list, i) ==
    IF st.err # "ok" \/ i > Len(category_list) THEN st
    ELSE LET row == category_list[i]
         IN  IF row.path \in a.target /\ row.number # a.number[row.path]
             THEN IF IsRootPath(row.path)
                  THEN IF ~a.ignore
                       THEN [st EXCEPT !.err = "RootImmutable"]
                       ELSE UpdateStep(st, a, category_list, i + 1)
                  ELSE UpdateStep(
                         Request(st, a.failAt,
                                 Call("update", <<>>, row.id, row.path, row.text,
                                      a.number[row.path], row.parentId, "ok"),
                                 RemoteUpdate(st.tree, row.id, row.text,
                                              a.number[row.path], row.parentId)),
                         a, category_list, i + 1)
             ELSE UpdateStep(st, a, category_list, i + 1)

\* Mutant of CreateNode: the running map of paths is not looked up, every
\* prefix of a missing leaf is created.
CreateNodeAgain(st, res, a, category, nodes, i) ==
    LET node_path == Join(SubSeq(nodes, 1, i))
        parent_path == Join(SubSeq(nodes, 1, i - 1))
        name == Unescape(nodes[i])
        number == IF res = "account" THEN a.number[category] ELSE 0
    IN  IF parent_path # <<>> /\ parent_path \notin DOMAIN st.categories
        THEN [st EXCEPT !.err = "KeyError"]
        ELSE IF parent_path = <<>> /\ res = "account"
        THEN [st EXCEPT !.err = "RootCreation"]
        ELSE LET parentId == IF parent_path # <<>> THEN st.categories[parent_path] ELSE 0
                 sent == Request(st, a.failAt,
                                 Call("create", <<>>, st.nextId, node_path, name,
                                      number, parentId, "ok"),
                                 RemoteCreate(st.tree, res, st.nextId, name,
                                              parentId, number))
             IN  IF sent.err # "ok" THEN sent
                 ELSE [sent EXCEPT !.nextId = st.nextId + 1,
                                   !.categories = (node_path :> st.nextId) @@ st.categories]

\* Mutant of CreateNode: a missing root is created for accounts too.
CreateNodeAnyRoot(st, res, a, category, nodes, i) ==
    LET node_path == Join(SubSeq(nodes, 1, i))
        parent_path == Join(SubSeq(nodes, 1, i - 1))
        name == Unescape(nodes[i])
        number == IF res = "account" THEN a.number[category] ELSE 0
    IN  IF node_path \in DOMAIN st.categories THEN st
        ELSE IF parent_path # <<>> /\ parent_path \notin DOMAIN st.categories
        THEN [st EXCEPT !.err = "KeyError"]
        ELSE LET parentId == IF parent_path # <<>> THEN st.categories[parent_path] ELSE 0
                 sent == Request(st, a.failAt,
                                 Call("create", <<>>, st.nextId, node_path, name,
                                      number, parentId, "ok"),
                                 RemoteCreate(st.tree, res, st.nextId, name,
                                              parentId, number))
             IN  IF sent.err # "ok" THEN sent
                 ELSE [sent EXCEPT !.nextId = st.nextId + 1,
                                   !.categories = (node_path :> st.nextId) @@ st.categories]

\* The body of "for i in range(1, len(nodes))" for one prefix of one
\* missing leaf (lines 323-336); i counts segments from 1, nodes[1] is the
\* empty string before the leading slash.
CreateNode(st, res, a, category, nodes, i) ==
    LET node_path == Join(SubSeq(nodes, 1, i))
        parent_path == Join(SubSeq(nodes, 1, i - 1))
        name == Unescape(nodes[i])
        number == IF res = "account" THEN a.number[category] ELSE 0
    IN  IF node_path \in DOMAIN st.categories THEN st
        ELSE IF parent_path # <<>> /\ parent_path \notin DOMAIN st.categories
        THEN [st EXCEPT !.err = "KeyError"]
        ELSE IF parent_path = <<>> /\ res = "account"
        THEN [st EXCEPT !.err = "RootCreation"]
        ELSE LET parentId == IF parent_path # <<>> THEN st.categories[parent_path] ELSE 0
                 sent == Request(st, a.failAt,
                                 Call("create", <<>>, st.nextId, node_path, name,
                                      number, parentId, "ok"),
                                 RemoteCreate(st.tree, res, st.nextId, name,
                                              parentId, number))
             IN  IF sent.err # "ok" THEN sent
                 ELSE [sent EXCEPT !.nextId = st.nextId + 1,
                                   !.categories = (node_path :> st.nextId) @@ st.categories]

\* Mutant of CreateStep: the walk stops one segment short of the leaf.
RECURSIVE CreateStepShort(_, _, _, _, _, _)
CreateStepShort(st, res, a, order, k, i) ==
    IF st.err # "ok" \/ k > Len(order) THEN st
    ELSE LET nodes == Split(order[k])
         IN  IF i >= Len(nodes) THEN CreateStepShort(st, res, a, order, k + 1, 2)
             ELSE CreateStepShort(CreateNode(st, res, a, order[k], nodes, i),
                                  res, a, order, k, i + 1)

\* for category in missing_leaves: for i in range(1, len(nodes)): ...
\* order is the order in which the set missing_leaves is iterated.
RECURSIVE CreateStep(_, _, _, _, _, _)
CreateStep(st, res, a, order, k, i) ==
    IF st.err # "ok" \/ k > Len(order) THEN st
    ELSE LET nodes == Split(order[k])
         IN  IF i > Len(nodes) THEN CreateStep(st, res, a, order, k + 1, 2)
             ELSE CreateStep(CreateNode(st, res, a, order[k], nodes, i),
                             res, a, order, k, i + 1)

\* The orders in which a Python set may be iterated.
Orders(S) ==
    {f \in [1..Cardinality(S) -> S] : \A i, j \in 1..Cardinality(S) : f[i] = f[j] => i = j}

\* set(target).difference(categories).difference("/")
missing_leaves(a, categories) == (a.target \ DOMAIN categories) \ {<<"/">>}

\* Mutant of TypeMismatch: only the account resource checks its target.
TypeMismatchAccountOnly(res, a) == res = "account" /\ ~a.isDict

\* The type check of lines 268-271: 'account' takes a dict, every other
\* resource a list.
TypeMismatch(res, a) ==
    \/ res = "account" /\ ~a.isDict
    \/ res # "account" /\ a.isDict

\* update_categories(resource, target, delete, ignore_account_root_nodes):
\* the set of possible outcomes [tree, nextId, log, err] of one invocation
\* on the remote tree `tree`.
update_categories(tree, nid, res, a) ==
    LET st0 == [tree |-> tree, nextId |-> nid, log |-> <<>>, err |-> "ok", n |-> 0,
                categories |-> <<>>]
        category_list == list_categories(tree, res, res # "file")
        listed == Request(st0, a.failAt,
                          Call("list", <<>>, 0, <<>>, <<>>, 0, 0, "ok"),
                          [ok |-> TRUE, tree |-> tree])
        st1 == [listed EXCEPT !.categories =
                    [p \in Paths(category_list) |->
                        (CHOOSE r \in {category_list[i] : i \in 1..Len(category_list)} :
                            r.path = p).id]]
        st2 == IF st1.err = "ok" THEN DeleteStep(st1, res, a, category_list) ELSE st1
        st3 == IF st2.err = "ok" /\ res = "account"
               THEN UpdateStep(st2, a, category_list, 1) ELSE st2
        final == IF st3.err # "ok" THEN {st3}
                 ELSE {CreateStep(st3, res, a, order, 1, 2) :
                          order \in Orders(missing_leaves(a, st3.categories))}
    IN  IF TypeMismatch(res, a)
        THEN {[tree |-> tree, nextId |-> nid, log |-> <<>>, err |-> "TypeMismatch"]}
        ELSE {[tree |-> f.tree, nextId |-> f.nextId, log |-> f.log, err |-> f.err] :
                 f \in final}

----------------------------------------------------------------------------
(* Inputs *)

Resources == {"account", "file", "person"}

\* The numbers of account categories. The code only compares numbers for
\* equality, so two values give every case.
Numbers == {1, 2}

\* The category paths of the model; a category is named by its last segment.
PoolPaths ==
    << <<"/", "a">>,
       <<"/", "a", "/", "b">>,
       <<"/", "a", "/", "b", "/", "a">>,
       <<"/", "a", "/", "b", "a">>,
       <<"/", "a", "/", "b", "a", "/", "b">>,
       <<"/", "b">> >>

\* Index in PoolPaths of the parent of PoolPaths[i], 0 for a root.
PoolParent(i) ==
    LET nodes == Split(PoolPaths[i])
        parent_path == Join(SubSeq(nodes, 1, Len(nodes) - 1))
    IN  IF parent_path = <<>> THEN 0
        ELSE CHOOSE j \in 1..Len(PoolPaths) : PoolPaths[j] = parent_path

\* The initial trees: sets of pool paths closed under parents.
InitShapes ==
    {S \in SUBSET (1..Len(PoolPaths)) :
        /\ Cardinality(S) <= MaxInitNodes
        /\ \A i \in S : PoolParent(i) = 0 \/ PoolParent(i) \in S}

\* The remote tree of resource res holding the pool paths S. PoolPaths[i] has
\* id i + 1; 'file' categories hang under the system root, account
\* categories carry number 1 and account roots are system categories.
InitTree(res, S) ==
    LET top == IF res = "file" THEN FileRootId ELSE 0
        nodes == {Node(i + 1,
                       Split(PoolPaths[i])[Len(Split(PoolPaths[i]))],
                       IF PoolParent(i) = 0 THEN top ELSE PoolParent(i) + 1,
                       IF res = "account" THEN 1 ELSE 0,
                       res = "account" /\ PoolParent(i) = 0) : i \in S}
    IN  IF res = "file"
        THEN nodes \cup {Node(FileRootId, <<"r">>, 0, 0, TRUE)}
        ELSE nodes

\* Target paths: the pool paths and the root sentinel "/".
TargetPaths == {PoolPaths[i] : i \in 1..Len(PoolPaths)} \cup {<<"/">>}

TargetSets == {T \in SUBSET TargetPaths : Cardinality(T) <= MaxTargets}

\* A target: a list of paths (number 0 throughout) or a dict path -> number.
Targets(isDict) ==
    UNION {IF isDict THEN {[target |-> T, number |-> f] : f \in [T -> Numbers]}
                     ELSE {[target |-> T, number |-> [t \in T |-> 0]]}
           : T \in TargetSets}

Arguments(isDict, failPoints) ==
    {[target |-> t.target, number |-> t.number, isDict |-> isDict,
      delete |-> d, ignore |-> g, failAt |-> f] :
        t \in Targets(isDict), d \in BOOLEAN, g \in BOOLEAN, f \in failPoints}

NoArguments ==
    [target |-> {}, number |-> [t \in {} |-> 0], isDict |-> FALSE,
     delete |-> FALSE, ignore |-> FALSE, failAt |-> 0]

NoOutcome == [err |-> "none", log |-> <<>>, tree |-> {}]

\* No list_categories call and no name round trip is under observation.
ListIdle == tree_data = <<>> /\ with_system = FALSE /\ category_table = <<>>
NameIdle == category_name = <<>> /\ category_path = <<>> /\ restored_name = <<>>

\* No local directory and no remote file is under observation.
FilesIdle ==
    /\ local_dir = {} /\ remote_files = {} /\ recycle_bin = {} /\ files_before = {}

\* No call of request_with_retry, upload_file, the cached client or
\* list_directory was made.
RetryIdle ==
    /\ rpc = "idle" /\ attempt = 0 /\ iteration = 0 /\ response = "None"
    /\ requests_sent = <<>> /\ raised = "None"
CacheIdle ==
    /\ files_cache = "None" /\ files_cache_time = "None" /\ cache_timeout = 0
    /\ clock = 0 /\ cache_before = "None"
ProffixIdle ==
    /\ session_id = "None" /\ frames = <<>> /\ traffic = <<>> /\ ended = "None"
ClientIdle ==
    /\ RetryIdle /\ CacheIdle /\ ProffixIdle
    /\ return_value = "None" /\ new_file_id = "None" /\ write_url = "None"
    /\ file_system = {}

----------------------------------------------------------------------------
(* The specification *)

Init ==
    /\ resource \in Resources
    /\ \E S \in InitShapes : remote = InitTree(resource, S)
    /\ nextId = Len(PoolPaths) + 2
    /\ pc = "idle"
    /\ args = NoArguments
    /\ pre = {}
    /\ log = <<>>
    /\ err = "none"
    /\ first = NoOutcome
    /\ ListIdle /\ NameIdle /\ FilesIdle /\ ClientIdle

\* One invocation of update_categories on the current remote tree. A failing
\* request is one the invocation issues: position failAt is within its log.
Run(a) ==
    \E out \in update_categories(remote, nextId, resource, a) :
        /\ a.failAt <= Len(out.log)
        /\ remote' = out.tree
        /\ nextId' = out.nextId
        /\ log' = out.log
        /\ err' = out.err
        /\ pre' = remote
        /\ args' = a
        /\ UNCHANGED <<listVars, nameVars, fileVars, clientVars>>

\* update_categories with a target of the shape the resource takes.
Update ==
    /\ pc = "idle"
    /\ \E a \in Arguments(resource = "account", 0..MaxFailAt) : Run(a)
    /\ pc' = "returned"
    /\ UNCHANGED <<resource, first>>

\* update_categories with a target of the other shape.
UpdateWrongShape ==
    /\ pc = "idle"
    /\ \E a \in Arguments(resource # "account", {0}) :
          /\ Cardinality(a.target) <= 1
          /\ Run(a)
    /\ pc' = "returned"
    /\ UNCHANGED <<resource, first>>

\* The caller repeats the invocation with the same arguments right after it
\* returned or raised; no request of the repetition fails.
Repeat ==
    /\ pc = "returned"
    /\ Run([args EXCEPT !.failAt = 0])
    /\ pc' = "repeated"
    /\ first' = [err |-> err, log |-> log, tree |-> pre]
    /\ UNCHANGED resource

Next == Update \/ UpdateWrongShape \/ Repeat

Spec == Init /\ [][Next]_vars

\* One invocation on every initial remote, without a repetition.
OnceNext == Update \/ UpdateWrongShape

OnceSpec == Init /\ [][OnceNext]_vars

----------------------------------------------------------------------------
(* The round trip of a category name: listed by list_categories, and created
   again from the listed path by update_categories *)

\* The characters of a name: a letter, the separator and its placeholder.
NameChars == {"a", "/", "\\"}

Names == UNION {[1..n -> NameChars] : n \in 1..MaxNameLen}

\* No update_categories invocation is under observation.
UpdateIdle ==
    /\ nextId = 1 /\ args = NoArguments /\ pre = {} /\ log = <<>>
    /\ first = NoOutcome

\* A remote holding one category of the given name, at the top level.
NameInit ==
    /\ resource = "person"
    /\ category_name \in Names
    /\ remote = {Node(1, category_name, 0, 0, FALSE)}
    /\ category_path = <<>>
    /\ restored_name = <<>>
    /\ pc = "idle"
    /\ err = "none"
    /\ UpdateIdle /\ ListIdle /\ FilesIdle /\ ClientIdle

\* list_categories: the path of the category.
ListName ==
    /\ pc = "idle"
    /\ category_path' = list_categories(remote, resource, TRUE)[1].path
    /\ pc' = "listed"
    /\ UNCHANGED <<resource, remote, err, category_name, restored_name, updVars, listVars,
                   fileVars, clientVars>>

\* update_categories(resource, [path]) on a remote without categories: the
\* name its create call sends.
CreateName ==
    /\ pc = "listed"
    /\ \E out \in update_categories({}, nextId, resource,
                    [target |-> {category_path}, number |-> [t \in {category_path} |-> 0],
                     isDict |-> FALSE, delete |-> FALSE, ignore |-> FALSE, failAt |-> 0]) :
          /\ restored_name' = out.log[Len(out.log)].name
          /\ remote' = out.tree
          /\ err' = out.err
    /\ pc' = "created"
    /\ UNCHANGED <<resource, category_name, category_path, updVars, listVars, fileVars,
                   clientVars>>

NameNext == ListName \/ CreateName

NameSpec == NameInit /\ [][NameNext]_vars

----------------------------------------------------------------------------
(* list_categories on arbitrary trees, well-formed or not *)

\* What the 'data' field of the response or of a node holds: a list, a JSON
\* object, a JSON string, null, or nothing (the key is absent).
TopKinds == {"list", "dict", "str", "null"}
LeafKinds == {"list", "dict", "str", "null", "absent"}

\* How flatten_nodes(data.copy()) ends (lines 209-223): None and str have no
\* copy method, and a collection that is not a list fails the isinstance
\* check of the call that receives it.
flatten_error(tree, kinds) ==
    IF kinds[0] \in {"str", "null"} THEN "AttributeError"
    ELSE IF kinds[0] = "dict" THEN "ValueError"
    ELSE IF \E n \in tree : kinds[n.id] \in {"dict", "str"} THEN "ValueError"
    ELSE "ok"

\* The names of the categories: a letter, the separator, the placeholder.
ListNames == {<<"a">>, <<"/">>, <<"\\">>}

\* The forests on the nodes 1..n: the parent of node i is 0 (none) or a
\* node before it.
Forests(n) == {p \in [1..n -> 0..(n - 1)] : \A i \in 1..n : p[i] < i}

\* The kind of 'data' of a node with children is a list.
HasChildren(p, i) == \E j \in DOMAIN p : p[j] = i

\* A well-formed tree with any names and system flags; leaves have no 'data'.
WellFormedTree(t, kinds, res) ==
    \E n \in 0..MaxListNodes : \E p \in Forests(n) :
    \E text \in [1..n -> ListNames] : \E sys \in [1..n -> BOOLEAN] :
        /\ t = {Node(i, text[i], p[i], IF res = "account" THEN 1 ELSE 0, sys[i]) : i \in 1..n}
        /\ kinds = [i \in 0..n |-> IF i = 0 \/ HasChildren(p, i) THEN "list" ELSE "absent"]

\* A tree of plain categories with any kind of 'data' at the top level and
\* at the leaves; a top level that is no list holds no node.
AnyDataTree(t, kinds, res) ==
    \E n \in 0..MaxListNodes : \E p \in Forests(n) :
    \E top \in TopKinds : \E leaf \in [1..n -> LeafKinds] :
        /\ top # "list" => n = 0
        /\ \A i \in 1..n : HasChildren(p, i) => leaf[i] = "list"
        /\ t = {Node(i, <<"a">>, p[i], IF res = "account" THEN 1 ELSE 0, FALSE) : i \in 1..n}
        /\ kinds = [i \in 0..n |-> IF i = 0 THEN top ELSE leaf[i]]

ListInit ==
    /\ resource \in Resources
    /\ \/ WellFormedTree(remote, tree_data, resource)
       \/ AnyDataTree(remote, tree_data, resource)
    /\ with_system = FALSE
    /\ category_table = <<>>
    /\ pc = "idle"
    /\ err = "none"
    /\ UpdateIdle /\ NameIdle /\ FilesIdle /\ ClientIdle

\* list_categories(resource, include_system)
ListCategories ==
    /\ pc = "idle"
    /\ \E inc \in BOOLEAN :
          /\ with_system' = inc
          /\ err' = flatten_error(remote, tree_data)
          /\ category_table' = IF flatten_error(remote, tree_data) = "ok"
                               THEN list_categories(remote, resource, inc)
                               ELSE <<>>
    /\ pc' = "listed"
    /\ UNCHANGED <<resource, remote, tree_data, updVars, nameVars, fileVars, clientVars>>

ListNext == ListCategories

ListSpec == ListInit /\ [][ListNext]_vars

----------------------------------------------------------------------------
(* Remote files and mirror_directory *)

\* A remote file; categoryId 0 stands for "no category" (null).
File(id, file_name, categoryId, lastUpdated) ==
    [id |-> id, name |-> file_name, categoryId |-> categoryId, lastUpdated |-> lastUpdated]

\* list_files(): one row per remote file; its path is the path of its
\* category in list_categories("file"), "" when it has none, + "/" + name.
list_files(tree, files) ==
    LET table == list_categories(tree, "file", FALSE)
        categories == {table[i] : i \in 1..Len(table)}
    IN  {[path |-> (IF \E c \in categories : c.id = f.categoryId
                    THEN (CHOOSE c \in categories : c.id = f.categoryId).path
                    ELSE <<>>) \o <<"/">> \o f.name,
          id |-> f.id, lastUpdated |-> f.lastUpdated] : f \in files}

\* The time of the remote's clock when it stores a file: later than every
\* modification time of the snapshot.
Now == 3

\* "/" + path, and Path(remote_path).parent.as_posix()
remote_path(local_file) == <<"/">> \o local_file.path
remote_category(local_file) ==
    LET nodes == Split(remote_path(local_file))
        parent == Join(SubSeq(nodes, 1, Len(nodes) - 1))
    IN  IF parent = <<>> THEN <<"/">> ELSE parent

\* path.name: the last segment of a local path.
BaseName(path) == Split(path)[Len(Split(path))]

\* One more call in the log of the invocation.
Logged(m, op, ids, id, path, file_name, parentId) ==
    [m EXCEPT !.log = Append(@, Call(op, ids, id, path, file_name, 0, parentId, "ok"))]

\* Mutant of files_to_delete: only the duplicates of a path are selected.
files_to_delete_duplicates(listed, firsts, local) ==
    {r \in listed : r \notin firsts}

\* Mutant of files_to_delete: only the files without local file are selected.
files_to_delete_missing(listed, firsts, local) ==
    {r \in listed : r.path \notin {remote_path(l) : l \in local}}

\* duplicated(keep="first") | ~isin(local remote paths) (lines 572-574);
\* firsts holds, for every path, the row that comes first in the table.
files_to_delete(listed, firsts, local) ==
    {r \in listed : r \notin firsts \/ r.path \notin {remote_path(l) : l \in local}}

\* Mutant of DeleteFiles: the flag delete_files is not looked at.
DeleteFilesAlways(m, listed, firsts, local, a) ==
    LET selected == SortByPath(files_to_delete(listed, firsts, local))
        ids == [i \in 1..Len(selected) |-> selected[i].id]
        gone == {f \in m.files : \E i \in 1..Len(ids) : ids[i] = f.id}
        deleted == IF selected = <<>> THEN m
                   ELSE Logged([m EXCEPT !.files = @ \ gone, !.bin = @ \cup gone],
                               "file_delete", ids, 0, <<>>, <<>>, 0)
    IN  Logged([deleted EXCEPT !.bin = {}], "empty_archive", <<>>, 0, <<>>, <<>>, 0)

\* if delete_files: ... (lines 571-581)
DeleteFiles(m, listed, firsts, local, a) ==
    IF ~a.delete_files THEN m
    ELSE LET selected == SortByPath(files_to_delete(listed, firsts, local))
             ids == [i \in 1..Len(selected) |-> selected[i].id]
             gone == {f \in m.files : \E i \in 1..Len(ids) : ids[i] = f.id}
             deleted == IF selected = <<>> THEN m
                        ELSE Logged([m EXCEPT !.files = @ \ gone, !.bin = @ \cup gone],
                                    "file_delete", ids, 0, <<>>, <<>>, 0)
         IN  Logged([deleted EXCEPT !.bin = {}], "empty_archive", <<>>, 0, <<>>, <<>>, 0)

\* Mutant of local_file_is_newer: a file of equal time counts as newer.
local_file_not_older(local_file, row) == local_file.mtime >= row.lastUpdated

\* df["mtime"] > df["remote_modified_time"] (line 601)
local_file_is_newer(local_file, row) == local_file.mtime > row.lastUpdated

\* The local files in the order of the listing (taken to be that of paths).
RECURSIVE InOrder(_)
InOrder(local) ==
    IF local = {} THEN <<>>
    ELSE LET least == CHOOSE l \in local : \A k \in local : ~StrLess(k.path, l.path)
         IN  <<least>> \o InOrder(local \ {least})

\* Mutant of to_update: a newer local file is uploaded as a new file.
to_update_as_new(local, kept) ==
    LET newer == {l \in local : \E r \in kept :
                     r.path = remote_path(l) /\ local_file_is_newer(l, r)}
        order == InOrder(newer)
    IN  [i \in 1..Len(order) |-> [file |-> order[i], id |-> 0]]

\* to_update (lines 596-602): the local files newer than the remote file of
\* the same path, each with the id of that remote file.
to_update(local, kept) ==
    LET newer == {l \in local : \E r \in kept :
                     r.path = remote_path(l) /\ local_file_is_newer(l, r)}
        order == InOrder(newer)
    IN  [i \in 1..Len(order) |->
            [file |-> order[i],
             id |-> (CHOOSE r \in kept : r.path = remote_path(order[i])).id]]

\* Mutant of to_upload: every local file is uploaded as a new file.
to_upload_all(local, kept) ==
    LET order == InOrder(local)
    IN  [i \in 1..Len(order) |-> [file |-> order[i], id |-> 0]]

\* to_upload (lines 611-613): the local files without remote file of the
\* same path; id 0 stands for "no id".
to_upload(local, kept) ==
    LET order == InOrder({l \in local : \A r \in kept : r.path # remote_path(l)})
    IN  [i \in 1..Len(order) |-> [file |-> order[i], id |-> 0]]

\* upload_file(Path(directory) / local_file, category=category_map[...], id):
\* the file is stored under the id given, or as a new file.
Upload(m, category_map, job) ==
    LET category == remote_category(job.file)
        file_name == BaseName(job.file.path)
    IN  IF category \notin DOMAIN category_map THEN [m EXCEPT !.err = "KeyError"]
        ELSE IF job.id = 0
        THEN Logged([m EXCEPT !.files = @ \cup {File(m.nextId, file_name,
                                                     category_map[category], Now)},
                              !.nextId = @ + 1],
                    "upload", <<>>, 0, remote_path(job.file), file_name, category_map[category])
        ELSE Logged([m EXCEPT !.files = {IF f.id = job.id
                                         THEN File(f.id, file_name, category_map[category], Now)
                                         ELSE f : f \in @}],
                    "upload", <<>>, job.id, remote_path(job.file), file_name,
                    category_map[category])

\* The two upload loops (lines 603-619).
RECURSIVE UploadStep(_, _, _, _)
UploadStep(m, category_map, jobs, i) ==
    IF m.err # "ok" \/ i > Len(jobs) THEN m
    ELSE UploadStep(Upload(m, category_map, jobs[i]), category_map, jobs, i + 1)

\* Lines 586-620, after update_categories returned.
UploadFiles(m, kept, local) ==
    LET categories == list_categories(m.tree, "file", FALSE)
        listed == Logged(m, "list", <<>>, 0, <<>>, <<>>, 0)
        category_map ==
            [q \in Paths(categories) \cup {<<"/">>} |->
                IF q = <<"/">> THEN 0
                ELSE categories[CHOOSE i \in 1..Len(categories) : categories[i].path = q].id]
    IN  IF \E r, q \in kept : r # q /\ r.path = q.path
        THEN [listed EXCEPT !.err = "DuplicateFiles"]
        ELSE UploadStep(listed, category_map, to_update(local, kept) \o to_upload(local, kept), 1)

\* mirror_directory(directory, delete_files, delete_categories): the set of
\* possible outcomes of one invocation. Which of several remote files of one
\* path comes first in the table of list_files is not determined.
mirror_directory(tree, nid, files, bin, local, a) ==
    LET listed == list_files(tree, files)
        m0 == Logged([tree |-> tree, nextId |-> nid, files |-> files, bin |-> bin,
                      log |-> <<>>, err |-> "ok"],
                     "list_files", <<>>, 0, <<>>, <<>>, 0)
        target == {remote_category(l) : l \in local}
        update_args == [target |-> target, number |-> [t \in target |-> 0],
                        isDict |-> FALSE, delete |-> a.delete_categories,
                        ignore |-> FALSE, failAt |-> 0]
    IN  UNION { LET m1 == DeleteFiles(m0, listed, firsts, local, a)
                    kept == IF a.delete_files
                            THEN listed \ files_to_delete(listed, firsts, local)
                            ELSE listed
                IN  { LET m2 == [m1 EXCEPT !.tree = out.tree, !.nextId = out.nextId,
                                           !.log = @ \o out.log, !.err = out.err]
                      IN  IF m2.err # "ok" THEN m2 ELSE UploadFiles(m2, kept, local)
                      : out \in update_categories(m1.tree, m1.nextId, "file", update_args) }
              : firsts \in {K \in SUBSET listed :
                               \A r \in listed :
                                   Cardinality({k \in K : k.path = r.path}) = 1} }

\* The modification times of local files and of the remote files at the start.
Times == {1, 2}

\* The local files: at the mirror root, in a folder and in a nested folder.
LocalPaths ==
    { <<"f">>, <<"g">>, <<"a", "/", "f">>, <<"a", "/", "b", "/", "f">> }

LocalDirs ==
    UNION { {{[path |-> q, mtime |-> t[q]] : q \in P} : t \in [P -> Times]}
            : P \in {Q \in SUBSET LocalPaths : Cardinality(Q) <= MaxLocalFiles} }

\* The remote files at the start: name and index in PoolPaths of the category
\* (0 for none).
FilePool == << [name |-> <<"f">>, category |-> 0], [name |-> <<"g">>, category |-> 0],
               [name |-> <<"f">>, category |-> 1], [name |-> <<"f">>, category |-> 2] >>

\* The remote file categories at the start: none, /a, or /a and /a/b.
MirrorShapes == {{}, {1}, {1, 2}}

\* Up to MaxRemoteFiles remote files with ids 1, 2, ... in categories of S;
\* several files may have the same name and category.
RemoteFileSets(S) ==
    UNION { { {File(i, FilePool[d[i]].name,
                    IF FilePool[d[i]].category = 0 THEN 0 ELSE FilePool[d[i]].category + 1,
                    t[i]) : i \in 1..k}
              : d \in {e \in [1..k -> 1..Len(FilePool)] :
                          /\ \A i \in 1..k : FilePool[e[i]].category \in S \cup {0}
                          /\ \A i \in 1..(k - 1) : e[i] <= e[i + 1]},
                t \in [1..k -> Times] }
            : k \in 0..MaxRemoteFiles }

MirrorInit ==
    /\ resource = "file"
    /\ \E S \in MirrorShapes :
          /\ remote = InitTree("file", S)
          /\ remote_files \in RemoteFileSets(S)
    /\ local_dir \in LocalDirs
    /\ recycle_bin = {}
    /\ files_before = {}
    /\ nextId = Len(PoolPaths) + 2
    /\ pc = "idle"
    /\ args = NoArguments
    /\ pre = {}
    /\ log = <<>>
    /\ err = "none"
    /\ first = NoOutcome
    /\ ListIdle /\ NameIdle /\ ClientIdle

\* One invocation of mirror_directory on the current remote state.
RunMirror(a) ==
    \E out \in mirror_directory(remote, nextId, remote_files, recycle_bin, local_dir, a) :
        /\ remote' = out.tree
        /\ nextId' = out.nextId
        /\ remote_files' = out.files
        /\ recycle_bin' = out.bin
        /\ log' = out.log
        /\ err' = out.err
        /\ pre' = remote
        /\ files_before' = remote_files
        /\ args' = a
        /\ UNCHANGED <<resource, local_dir, listVars, nameVars, clientVars>>

Mirror ==
    /\ pc = "idle"
    /\ \E df, dc \in BOOLEAN : RunMirror([delete_files |-> df, delete_categories |-> dc])
    /\ pc' = "returned"
    /\ UNCHANGED first

\* The caller mirrors the unchanged directory again with the same arguments.
MirrorAgain ==
    /\ pc = "returned"
    /\ RunMirror(args)
    /\ pc' = "repeated"
    /\ first' = [err |-> err, log |-> log, tree |-> pre]

MirrorNext == Mirror \/ MirrorAgain

MirrorSpec == MirrorInit /\ [][MirrorNext]_vars

----------------------------------------------------------------------------
(* request_with_retry: one call, the server answering each request requests_sent with
   a status code or the transport raising an exception. *)

\* retries = 3 (line 78)
retries == 3

\* What sending one request ends in: a response with its status code, or an
\* exception of the transport.
HttpResponse(status) == [kind |-> "response", status |-> status, name |-> "None"]
Raises(name) == [kind |-> "exception", status |-> 0, name |-> name]
NoResponse == [kind |-> "unbound", status |-> 0, name |-> "None"]

StatusCodes == {200, 429, 500}
Outcomes ==
    {HttpResponse(c) : c \in StatusCodes}
        \cup {Raises(n) : n \in {"MaxRetryError", "ConnectionError", "ReadTimeout"}}

\* except (urllib3.exceptions.MaxRetryError, requests.exceptions.ConnectionError)
Caught(outcome) == outcome.name \in {"MaxRetryError", "ConnectionError"}

\* response.status_code == 429 and attempt < retries - 1 (line 82)
SleepAfterResponse(status, att) == status = 429 /\ att < retries - 1

\* Mutant of SleepAfterException: the request is requests_sent again after every
\* connection error.
SleepAfterExceptionAlways(att) == TRUE

\* attempt < retries, after attempt += 1 (lines 90-91)
SleepAfterException(att) == att < retries

RetryInit ==
    /\ rpc = "loop"
    /\ attempt = 0 /\ iteration = 0
    /\ response = NoResponse
    /\ requests_sent = <<>>
    /\ raised = "None"
    /\ return_value = NoResponse
    /\ resource = "file" /\ remote = {} /\ pc = "idle" /\ err = "none"
    /\ UpdateIdle /\ ListIdle /\ NameIdle /\ FilesIdle /\ CacheIdle
    /\ new_file_id = "None" /\ write_url = "None" /\ file_system = {}
    /\ ProffixIdle

\* The variables the steps of request_with_retry leave alone.
RetryFrame ==
    UNCHANGED <<resource, remote, pc, err, updVars, listVars, nameVars, fileVars,
                uploadVars, cacheVars, file_system, proffixVars>>

\* One iteration of "for attempt in range(retries)" (lines 79-94): the
\* request is requests_sent and answered; after the last iteration the loop ends.
Send ==
    /\ rpc = "loop"
    /\ IF iteration >= retries
       THEN /\ rpc' = "after"
            /\ UNCHANGED <<attempt, iteration, response, requests_sent, raised>>
       ELSE \E outcome \in Outcomes :
               /\ iteration' = iteration + 1
               /\ requests_sent' = Append(requests_sent, outcome)
               /\ IF outcome.kind = "response"
                  THEN /\ response' = outcome
                       /\ attempt' = iteration
                       /\ rpc' = IF SleepAfterResponse(outcome.status, iteration)
                                 THEN "sleep" ELSE "after"
                       /\ raised' = raised
                  ELSE IF Caught(outcome)
                  THEN /\ attempt' = iteration + 1
                       /\ response' = response
                       /\ IF SleepAfterException(iteration + 1)
                          THEN rpc' = "sleep" /\ raised' = raised
                          ELSE rpc' = "raised" /\ raised' = outcome.name
                  ELSE /\ attempt' = iteration
                       /\ response' = response
                       /\ rpc' = "raised" /\ raised' = outcome.name
    /\ return_value' = return_value
    /\ RetryFrame

\* time.sleep(wait_time) (lines 85, 92)
Sleep ==
    /\ rpc = "sleep"
    /\ rpc' = "loop"
    /\ UNCHANGED <<attempt, iteration, response, requests_sent, raised, return_value>>
    /\ RetryFrame

\* After the loop (lines 96-100): HTTPError for a status code other than 200,
\* else the response is returned. A loop that ended without any response
\* leaves the name response unbound.
Conclude ==
    /\ rpc = "after"
    /\ IF response.kind = "unbound"
       THEN rpc' = "raised" /\ raised' = "UnboundLocalError" /\ return_value' = return_value
       ELSE IF response.status # 200
       THEN rpc' = "raised" /\ raised' = "HTTPError" /\ return_value' = return_value
       ELSE rpc' = "returned" /\ raised' = raised /\ return_value' = response
    /\ UNCHANGED <<attempt, iteration, response, requests_sent>>
    /\ RetryFrame

RetryNext == Send \/ Sleep \/ Conclude

\* The call runs on: Python executes the next statement, and time.sleep
\* returns.
RetrySpec == RetryInit /\ [][RetryNext]_vars /\ WF_vars(RetryNext)

----------------------------------------------------------------------------
(* upload_file: one call; the content is sent with request_with_retry, whose
   steps are those above. *)

\* A file id as Python holds it: an int, a str of digits, or None.
IntId(n) == [type |-> "int", value |-> n]
StrId(n) == [type |-> "str", value |-> n]
NoId == [type |-> "None", value |-> 0]

\* int(id)
int(id) == IntId(id.value)

\* The ids the remote gives a prepared file, and its write URL.
PreparedIds == {5, 6}
WriteUrl(n) == <<"url", n>>

\* The 'data' of the response to file/prepare.json: a list of prepared files.
Prepared(n) == [fileId |-> IntId(n), writeUrl |-> WriteUrl(n)]
PrepareData ==
    {<<>>} \cup {<<Prepared(n)>> : n \in PreparedIds} \cup {<<Prepared(5), Prepared(6)>>}

\* upload_file(file, id, name, category): the file may not exist, the id and
\* the name may be left out.
UploadArguments ==
    [is_file : BOOLEAN, path : {<<"a", "/", "f">>}, id : {NoId, IntId(1), StrId(1)},
     name : {<<>>, <<"g">>}, category : {0}]

\* name if name is not None else path.name (lines 497, 520)
UploadName(a) == IF a.name # <<>> THEN a.name ELSE BaseName(a.path)

\* A remote call upload_file issues.
UploadCall(op, url, id, ids, replaceWith, file_name, data, answer) ==
    [op |-> op, url |-> url, id |-> id, ids |-> ids, replaceWith |-> replaceWith,
     name |-> file_name, data |-> data, result |-> answer]

\* Mutant of file_id: the id of the prepared file is returned in both cases.
file_id_prepared(a, new_id) == new_id

\* file_id (lines 516, 525): what upload_file returns.
file_id(a, new_id) == IF a.id = NoId THEN new_id ELSE int(a.id)

UploadInit ==
    /\ resource = "file"
    /\ remote = InitTree("file", {})
    /\ remote_files \in {{}, {File(1, <<"f">>, 0, 1)}}
    /\ local_dir = {} /\ recycle_bin = {} /\ files_before = {}
    /\ pc = "idle" /\ err = "none"
    /\ UpdateIdle /\ ListIdle /\ NameIdle /\ ClientIdle

\* upload_file up to the call of request_with_retry (lines 490-508): the file
\* is looked up, file/prepare.json is posted and its response is read.
PrepareUpload ==
    /\ pc = "idle"
    /\ \E a \in UploadArguments, answered \in BOOLEAN, data \in PrepareData :
          LET call == UploadCall("prepare", <<>>, NoId, NoId, NoId, UploadName(a), data,
                                 IF answered THEN "ok" ELSE "failed")
          IN  /\ args' = a
              /\ IF ~a.is_file
                 THEN /\ err' = "FileNotFoundError" /\ pc' = "raised" /\ log' = <<>>
                      /\ UNCHANGED <<uploadVars, retryVars>>
                 ELSE IF ~answered
                 THEN /\ err' = "ApiError" /\ pc' = "raised" /\ log' = <<call>>
                      /\ UNCHANGED <<uploadVars, retryVars>>
                 ELSE IF Len(data) # 1
                 THEN /\ err' = "ValueError" /\ pc' = "raised" /\ log' = <<call>>
                      /\ UNCHANGED <<uploadVars, retryVars>>
                 ELSE /\ new_file_id' = data[1].fileId
                      /\ write_url' = data[1].writeUrl
                      /\ log' = <<call, UploadCall("put", data[1].writeUrl, NoId, NoId, NoId,
                                                  <<>>, <<>>, "sent")>>
                      /\ err' = err /\ pc' = "put"
                      /\ rpc' = "loop" /\ attempt' = 0 /\ iteration' = 0
                      /\ response' = NoResponse /\ requests_sent' = <<>>
                      /\ raised' = raised
    /\ UNCHANGED <<resource, remote, nextId, pre, first, listVars, nameVars, fileVars,
                   return_value, cacheVars, file_system, proffixVars>>

\* upload_file after request_with_retry (lines 511-528): an exception of the
\* PUT goes on to the caller; else file/persist.json or file/update.json is
\* posted and the file id is returned.
StoreUpload ==
    /\ pc = "put" /\ rpc \in {"returned", "raised"}
    /\ IF rpc = "raised"
       THEN /\ err' = raised /\ pc' = "raised"
            /\ UNCHANGED <<log, return_value, remote_files>>
       ELSE IF return_value.status # 200
       THEN /\ err' = "HTTPError" /\ pc' = "raised"
            /\ UNCHANGED <<log, return_value, remote_files>>
       ELSE \E answered \in BOOLEAN :
               LET known == \E f \in remote_files : f.id = args.id.value
                   answer == IF ~answered THEN "failed"
                             ELSE IF args.id # NoId /\ ~known THEN "refused" ELSE "ok"
                   call == IF args.id = NoId
                           THEN UploadCall("persist", <<>>, NoId, new_file_id, NoId, <<>>,
                                           <<>>, answer)
                           ELSE UploadCall("update", <<>>, args.id, NoId, new_file_id,
                                           UploadName(args), <<>>, answer)
                   stored == File(file_id(args, new_file_id).value, UploadName(args),
                                  args.category, Now)
               IN  /\ log' = Append(log, call)
                   /\ IF answer = "ok"
                      THEN /\ err' = "ok" /\ pc' = "returned"
                           /\ return_value' = file_id(args, new_file_id)
                           /\ remote_files' =
                                 {f \in remote_files : f.id # stored.id} \cup {stored}
                      ELSE /\ err' = "ApiError" /\ pc' = "raised"
                           /\ UNCHANGED <<return_value, remote_files>>
    /\ UNCHANGED <<resource, remote, nextId, args, pre, first, listVars, nameVars, local_dir,
                   recycle_bin, files_before, retryVars, uploadVars, cacheVars, file_system, proffixVars>>

UploadNext == PrepareUpload \/ Send \/ Sleep \/ Conclude \/ StoreUpload

UploadSpec == UploadInit /\ [][UploadNext]_vars

----------------------------------------------------------------------------
(* CachedCashCtrlClient: list_files and invalidate_files_cache of one client,
   while time passes and the remote files change. *)

MaxClock == 3     \* seconds that pass while the client is observed

\* cache_timeout of the constructor, in seconds
CacheTimeouts == {1, 2}

\* An Optional value: None, or a value that is set.
None == [set |-> FALSE, value |-> {}]
Some(v) == [set |-> TRUE, value |-> v]

\* Mutant of _is_expired: a cache as old as the timeout counts as expired.
is_expired_at_timeout(cache_time, now, timeout) ==
    IF ~cache_time.set THEN TRUE ELSE now - cache_time.value >= timeout

\* _is_expired(cache_time) (lines 66-77)
is_expired(cache_time, now, timeout) ==
    IF ~cache_time.set THEN TRUE ELSE now - cache_time.value > timeout

\* super().list_files(): the listing call of the base client goes to the
\* remote.
BaseListFiles(tree, files) ==
    [log |-> <<[op |-> "list_files", result |-> "ok"]>>, table |-> list_files(tree, files)]

\* The remote files while the cached client is observed.
CachedFileSets == {{}, {File(1, <<"f">>, 0, 1)}, {File(1, <<"f">>, 0, 1), File(2, <<"g">>, 0, 1)}}

\* CachedCashCtrlClient(cache_timeout=...) (lines 21-43)
CacheInit ==
    /\ resource = "file"
    /\ remote = InitTree("file", {})
    /\ remote_files \in CachedFileSets
    /\ local_dir = {} /\ recycle_bin = {} /\ files_before = {}
    /\ files_cache = None /\ files_cache_time = None
    /\ cache_timeout \in CacheTimeouts
    /\ clock = 0
    /\ cache_before = [cache |-> None, time |-> None]
    /\ return_value = None
    /\ pc = "new" /\ err = "none"
    /\ UpdateIdle /\ ListIdle /\ NameIdle /\ RetryIdle
    /\ new_file_id = "None" /\ write_url = "None" /\ file_system = {}
    /\ ProffixIdle

CacheFrame ==
    UNCHANGED <<resource, remote, err, nextId, args, pre, first, listVars, nameVars,
                local_dir, recycle_bin, files_before, retryVars, uploadVars,
                cache_timeout, file_system, proffixVars>>

\* CachedCashCtrlClient.list_files() (lines 101-111)
ListFiles ==
    /\ cache_before' = [cache |-> files_cache, time |-> files_cache_time]
    /\ IF ~files_cache.set \/ is_expired(files_cache_time, clock, cache_timeout)
       THEN LET fetched == BaseListFiles(remote, remote_files)
            IN  /\ files_cache' = Some(fetched.table)
                /\ files_cache_time' = Some(clock)
                /\ log' = fetched.log
       ELSE /\ UNCHANGED <<files_cache, files_cache_time>>
            /\ log' = <<>>
    /\ return_value' = files_cache'
    /\ pc' = "returned"
    /\ UNCHANGED <<remote_files, clock>>
    /\ CacheFrame

\* invalidate_files_cache() (lines 494-497)
InvalidateFilesCache ==
    /\ files_cache' = None
    /\ files_cache_time' = None
    /\ pc' = "invalidated"
    /\ UNCHANGED <<remote_files, clock, cache_before, return_value, log>>
    /\ CacheFrame

\* A second passes.
Tick ==
    /\ clock < MaxClock
    /\ clock' = clock + 1
    /\ pc' = IF pc = "new" THEN "new" ELSE "idle"
    /\ UNCHANGED <<remote_files, files_cache, files_cache_time, cache_before, return_value, log>>
    /\ CacheFrame

\* Another client changes the remote files.
RemoteChange ==
    /\ remote_files' \in CachedFileSets \ {remote_files}
    /\ pc' = IF pc = "new" THEN "new" ELSE "idle"
    /\ UNCHANGED <<clock, files_cache, files_cache_time, cache_before, return_value, log>>
    /\ CacheFrame

CacheNext == ListFiles \/ InvalidateFilesCache \/ Tick \/ RemoteChange

CacheSpec == CacheInit /\ [][CacheNext]_vars

----------------------------------------------------------------------------
(* list_directory: one call on a directory of the local file system. *)

MaxDirEntries == 3    \* entries below the listed directory

\* Path(directory).parts for the directories listed: /d, /.h/d (a directory
\* below a hidden one), .. and the current directory.
Directories ==
    { << <<"/">>, <<"d">> >>, << <<"/">>, <<".", "h">>, <<"d">> >>, << <<".", ".">> >>, <<>> }

\* The entries a directory may have, as parts relative to it: files f, .f,
\* s/f, s/.f, .s/f and directories s, .s.
DirEntry(parts, is_file) == [parts |-> parts, is_file |-> is_file]
EntryPool ==
    { DirEntry(<< <<"f">> >>, TRUE), DirEntry(<< <<".", "f">> >>, TRUE),
      DirEntry(<< <<"s">> >>, FALSE), DirEntry(<< <<".", "s">> >>, FALSE),
      DirEntry(<< <<"s">>, <<"f">> >>, TRUE), DirEntry(<< <<"s">>, <<".", "f">> >>, TRUE),
      DirEntry(<< <<".", "s">>, <<"f">> >>, TRUE) }

\* A directory tree: every entry below a subdirectory comes with it.
EntrySets ==
    {S \in SUBSET EntryPool :
        /\ Cardinality(S) <= MaxDirEntries
        /\ \A e \in S : Len(e.parts) = 2 =>
              DirEntry(<<e.parts[1]>>, FALSE) \in S}

\* is_hidden(path) (lines 36-38): a part of the path starts with a dot.
is_hidden(parts) == \E i \in 1..Len(parts) : StartsWith(parts[i], <<".">>)

\* directory_path.glob(glob_pattern) (lines 40-41): the entries of the
\* directory, those of its subdirectories with "**/*"; each is the path of
\* the directory with the entry's parts.
glob(directory, entries, recursive) ==
    {[path |-> directory \o e.parts, relative |-> e.parts, is_file |-> e.is_file] :
        e \in {x \in entries : recursive \/ Len(x.parts) = 1}}

\* PurePath.as_posix(): the parts joined by "/".
RECURSIVE as_posix(_)
as_posix(parts) ==
    IF parts = <<>> THEN <<>>
    ELSE IF Len(parts) = 1 THEN parts[1]
    ELSE parts[1] \o <<"/">> \o as_posix(Tail(parts))

\* list_directory(directory, recursive, exclude_dirs, include_hidden)
\* (lines 40-48): the 'path' column of the table returned.
list_directory(directory, entries, a) ==
    {as_posix(entry.relative) :
        entry \in {e \in glob(directory, entries, a.recursive) :
                      /\ ~a.exclude_dirs \/ e.is_file
                      /\ a.include_hidden \/ ~is_hidden(e.path)}}

DirInit ==
    /\ file_system \in [directory : Directories, kind : {"dir", "file", "missing"},
                        entries : EntrySets]
    /\ file_system.kind # "dir" => file_system.entries = {}
    /\ return_value = {}
    /\ resource = "file" /\ remote = {} /\ pc = "idle" /\ err = "none"
    /\ UpdateIdle /\ ListIdle /\ NameIdle /\ FilesIdle /\ RetryIdle /\ CacheIdle
    /\ new_file_id = "None" /\ write_url = "None"
    /\ ProffixIdle

\* One call of list_directory (lines 30-62).
ListDirectory ==
    /\ pc = "idle"
    /\ \E a \in [recursive : BOOLEAN, exclude_dirs : BOOLEAN, include_hidden : BOOLEAN] :
          /\ args' = a
          /\ IF file_system.kind # "dir"
             THEN err' = "FileNotFoundError" /\ pc' = "raised" /\ return_value' = return_value
             ELSE /\ err' = "ok" /\ pc' = "returned"
                  /\ return_value' = list_directory(file_system.directory,
                                                    file_system.entries, a)
    /\ UNCHANGED <<resource, remote, nextId, pre, log, first, listVars, nameVars, fileVars,
                   retryVars, uploadVars, cacheVars, file_system, proffixVars>>

DirNext == ListDirectory

DirSpec == DirInit /\ [][DirNext]_vars

----------------------------------------------------------------------------
(* Vocabulary of the properties *)

\* An invocation has ended; args, pre, log and err describe it.
Returned == pc # "idle"

\* The listing update_categories works on, taken of a remote tree.
CategoryList(tree) == list_categories(tree, resource, resource # "file")

Before == CategoryList(pre)
After == CategoryList(remote)

Rows(listing) == {listing[i] : i \in 1..Len(listing)}

\* The positions of the log holding a call of the given kind.
Issued(op) == {i \in 1..Len(log) : log[i].op = op}

Mutating == Issued("delete") \cup Issued("update") \cup Issued("create")

\* Every remote call of the invocation was answered without error.
NoCallFailed == \A i \in 1..Len(log) : log[i].result = "ok"

\* The tree listing of the invocation was fetched.
Listed == Len(log) >= 1 /\ log[1].result = "ok"

\* The ids a delete call of the invocation carries.
DeletedIds == UNION {{log[i].ids[k] : k \in 1..Len(log[i].ids)} : i \in Issued("delete")}

\* The ids of a category's descendants in a tree.
RECURSIVE Descendants(_, _)
Descendants(tree, id) ==
    UNION {{n.id} \cup Descendants(tree, n.id) : n \in Children(tree, id)}

\* The path of the parent category, and a path's ancestors with itself.
ParentPath(path) == Join(SubSeq(Split(path), 1, Len(Split(path)) - 1))
PathAndAncestors(path) == {Join(SubSeq(Split(path), 1, j)) : j \in 2..Len(Split(path))}

\* The paths of the target that name a category (all but the sentinel "/").
TargetCategories == args.target \ {<<"/">>}

\* Listed root categories no target path covers.
OmittedRoots == {r \in Rows(Before) : IsRootPath(r.path) /\ ~Covered(args.target, r.path)}

\* Listed root categories the target maps to another number.
RenumberedRoots ==
    {r \in Rows(Before) :
        IsRootPath(r.path) /\ r.path \in args.target /\ r.number # args.number[r.path]}

\* Target paths below a root category the remote does not have.
NewRootTargets ==
    LET listed == Paths(Before)
    IN  {t \in TargetCategories : Join(SubSeq(Split(t), 1, 2)) \notin listed}

\* The target otherwise matches the remote state: it names exactly the listed
\* categories, each non-root one with its stored number.
OtherwiseMatching ==
    LET rows == Rows(Before)
    IN  /\ args.target = {r.path : r \in rows}
        /\ \A r \in rows : IsRootPath(r.path) \/ r.number = args.number[r.path]

\* update_categories('account', target, delete=True, ignore_account_root_nodes=ignore)
\* has fetched the tree listing.
AccountDelete(ignore) ==
    /\ Returned /\ resource = "account" /\ args.isDict /\ Listed
    /\ args.delete /\ args.ignore = ignore

----------------------------------------------------------------------------
(* Properties *)

\* C1: a second update_categories call with the same arguments, right after a
\* first one that succeeded, issues no create, delete or update call.
C1_Idempotent ==
    (pc = "repeated" /\ first.err = "ok") => Mutating = {}

\* C2: within one invocation the delete call comes before every update and
\* create call; inside the delete call every category precedes each of its
\* ancestors; a category is created after its parent when both are created in
\* the invocation.
C2_Ordering ==
    Returned =>
        /\ \A i \in Issued("delete") : \A j \in Issued("update") \cup Issued("create") : i < j
        /\ \A i \in Issued("delete") : \A k, l \in 1..Len(log[i].ids) :
              log[i].ids[l] \in Descendants(pre, log[i].ids[k]) => l < k
        /\ \A i, j \in Issued("create") :
              log[i].path = ParentPath(log[j].path) => i < j

\* A delete call carrying a category and its parent, and a category created
\* together with its parent, in one invocation.
C2_Witness ==
    /\ Returned
    /\ \E i \in Issued("delete") : \E k, l \in 1..Len(log[i].ids) :
          log[i].ids[l] \in Descendants(pre, log[i].ids[k])
    /\ \E i, j \in Issued("create") : log[i].path = ParentPath(log[j].path)

\* C3: with delete=True the categories deleted are exactly the listed ones
\* whose path is neither a prefix of nor equal to a target path (account roots
\* left out when ignore_account_root_nodes is set), sent in one delete call;
\* no delete call when there is none; a covered category is never deleted.
C3_DeleteSet ==
    (Returned /\ args.delete /\ Listed /\ err # "TypeMismatch") =>
        LET expected == {r.id : r \in {q \in Rows(Before) :
                            /\ ~Covered(args.target, q.path)
                            /\ ~(resource = "account" /\ args.ignore /\ IsRootPath(q.path))}}
        IN  /\ expected = {} => Issued("delete") = {}
            /\ expected # {} =>
                  /\ Cardinality(Issued("delete")) = 1
                  /\ DeletedIds = expected
            /\ \A r \in Rows(Before) : Covered(args.target, r.path) => r.id \notin DeletedIds

C5_SubtreeUntouched ==
    (AccountDelete(TRUE) /\ OmittedRoots # {} /\ NoCallFailed /\ NewRootTargets = {}) =>
        /\ err = "ok"
        /\ \A r \in OmittedRoots :
              ({r.id} \cup Descendants(pre, r.id)) \cap DeletedIds = {}

\* C5 amended: the omitted root itself is in no delete call and stays as it
\* was; every category below it is in the delete call, and is gone when the
\* call succeeds, which it does when no remote call fails.
C5_OnlyRootKept ==
    AccountDelete(TRUE) =>
        LET omitted == OmittedRoots
        IN  omitted # {} =>
        /\ \A r \in omitted :
              /\ r.id \notin DeletedIds
              /\ \E n \in remote : n.id = r.id /\ n \in pre
              /\ Descendants(pre, r.id) \subseteq DeletedIds
              /\ err = "ok" => \A n \in remote : n.id \notin Descendants(pre, r.id)
        /\ (NoCallFailed /\ NewRootTargets = {}) => err = "ok"

C5_Witness ==
    /\ AccountDelete(TRUE) /\ err = "ok"
    /\ \E r \in OmittedRoots :
          /\ Descendants(pre, r.id) # {}
          /\ Descendants(pre, r.id) \subseteq DeletedIds

\* C6: for 'account', a target giving an existing root another number raises
\* the 'Failed to update sequence number' error when ignore_account_root_nodes
\* is False (no remote call having failed before); when it is True no update
\* call is sent for the root, the error is not raised, and with a target that
\* otherwise matches the remote state the call succeeds, issues no mutating
\* call and leaves the category table as it was.
C6_RootRenumber ==
    (Returned /\ resource = "account" /\ args.isDict /\ Listed) =>
        LET renumbered == RenumberedRoots
        IN  renumbered # {} =>
        /\ (~args.ignore /\ NoCallFailed) => err = "RootImmutable"
        /\ args.ignore =>
              /\ \A i \in Issued("update") : \A r \in renumbered : log[i].id # r.id
              /\ err # "RootImmutable"
              /\ OtherwiseMatching => (err = "ok" /\ Mutating = {} /\ remote = pre)

C6_Witness ==
    /\ Returned /\ resource = "account" /\ RenumberedRoots # {}
    /\ args.ignore /\ args.delete /\ OtherwiseMatching
    /\ Len(Before) >= 2 /\ err = "ok" /\ remote = pre

\* C7: after a successful update_categories('account', target) every non-root
\* path of target is a remote category whose number is target[path].
C7_Numbers ==
    (Returned /\ resource = "account" /\ err = "ok") =>
        \A t \in TargetCategories :
            IsRootPath(t) \/ \E r \in Rows(After) : r.path = t /\ r.number = args.number[t]

C9_NoDelete ==
    (Returned /\ ~args.delete) =>
        /\ Issued("delete") = {}
        /\ \A n \in pre : \E m \in remote : m.id = n.id

C9_Witness ==
    /\ Returned /\ ~args.delete /\ err = "ok" /\ Issued("create") # {}
    /\ \E r \in Rows(Before) : ~Covered(args.target, r.path)

\* C10 as claimed: for 'account', a target with a path below a root that does
\* not exist raises the 'Cannot create new root nodes' error (no remote call
\* having failed); no create call without parentId is ever issued for accounts.
C10_RootCreationRaised ==
    /\ (Returned /\ resource = "account" /\ args.isDict /\ Listed /\ NoCallFailed
          /\ NewRootTargets # {}) => err = "RootCreation"
    /\ (Returned /\ resource = "account") => \A i \in Issued("create") : log[i].parentId # 0

\* C10 amended: such a target makes the call raise: the 'Cannot create new root
\* nodes' error, or the 'Failed to update sequence number' error of the
\* earlier renumbering step when the target also renumbers an existing root
\* and ignore_account_root_nodes is False; no create call without parentId is
\* ever issued for accounts.
C10_NewRootRejected ==
    /\ (Returned /\ resource = "account" /\ args.isDict /\ Listed /\ NoCallFailed
          /\ NewRootTargets # {}) =>
             /\ err \in {"RootCreation", "RootImmutable"}
             /\ err = "RootImmutable" <=> (~args.ignore /\ RenumberedRoots # {})
    /\ (Returned /\ resource = "account") => \A i \in Issued("create") : log[i].parentId # 0

C10_Witness ==
    /\ Returned /\ resource = "account" /\ NewRootTargets # {}
    /\ err = "RootCreation" /\ Issued("create") # {}

\* C11: update_categories raises the type-mismatch error exactly when the
\* resource is 'account' and the target is no dict, or the resource is not
\* 'account' and the target is a dict; it is raised before any remote call:
\* the log of the invocation is empty and the remote tree is as it was.
C11_TypeMismatch ==
    Returned =>
        /\ ((resource = "account") # args.isDict) <=> err = "TypeMismatch"
        /\ err = "TypeMismatch" => (log = <<>> /\ remote = pre)

\* A dict handed to a resource other than 'account', with delete set and a
\* target that neither covers the remote categories nor is among them.
C11_Witness ==
    /\ pc = "returned" /\ resource # "account" /\ args.isDict /\ args.delete
    /\ err = "TypeMismatch" /\ log = <<>>
    /\ pre # {} /\ args.target # {} /\ args.target \cap Paths(Before) = {}

\* The system categories of the remote tree before the invocation.
SystemCategories == {n \in pre : n.isSystem}

Chars(s) == {s[i] : i \in 1..Len(s)}

\* C13 as claimed: a name containing '/', listed by list_categories and
\* created again from the listed path, is sent as the original name, whatever
\* other characters it contains.
C13_RoundTrip ==
    (pc = "created" /\ "/" \in Chars(category_name)) => restored_name = category_name

\* C13 amended: the name sent is the original one with every backslash turned
\* into '/': the original name exactly when it contains no backslash. The
\* listed path has one segment, in which no '/' of the name is left.
C13_RoundTripWithoutBackslash ==
    pc = "created" =>
        /\ err = "ok"
        /\ Len(restored_name) = Len(category_name)
        /\ \A i \in 1..Len(category_name) :
              restored_name[i] = (IF category_name[i] = "\\" THEN "/" ELSE category_name[i])
        /\ "\\" \notin Chars(category_name) <=> restored_name = category_name
        /\ IsRootPath(category_path)

\* A name with a letter and two separators comes back as it was.
C13_Witness ==
    /\ pc = "created" /\ restored_name = category_name
    /\ \E i, j \in 1..Len(category_name) :
          i # j /\ category_name[i] = "/" /\ category_name[j] = "/"
    /\ "a" \in Chars(category_name)

\* A list_categories call has returned its table.
Listed_ok == pc = "listed" /\ err = "ok"

\* The node of the remote tree with the given id.
NodeOf(id) == CHOOSE n \in remote : n.id = id

\* The path of a node, from the root down: every ancestor's escaped name and
\* its own, each after a '/'.
RECURSIVE FullPath(_)
FullPath(n) ==
    (IF n.parentId = 0 THEN <<>> ELSE FullPath(NodeOf(n.parentId)))
        \o <<"/">> \o Escape(n.text)

\* The first segment of a node's path: '/' and the escaped name of its root.
RECURSIVE FirstSegment(_)
FirstSegment(n) ==
    IF n.parentId = 0 THEN <<"/">> \o Escape(n.text)
    ELSE FirstSegment(NodeOf(n.parentId))

\* The rows of the table returned, and the ids they carry.
TableRows == Rows(category_table)
TableIds == {r.id : r \in TableRows}

\* No two siblings of the remote tree have the same name / escaped name.
DistinctSiblingNames ==
    \A m, n \in remote : (m.parentId = n.parentId /\ m.text = n.text) => m = n
DistinctEscapedSiblingNames ==
    \A m, n \in remote :
        (m.parentId = n.parentId /\ Escape(m.text) = Escape(n.text)) => m = n

\* The 'file' tree as the remote keeps it: at most one node at the top level.
SingleRoot == Cardinality({n \in remote : n.parentId = 0}) <= 1

\* C14 as claimed: in a tree where no two siblings have the same name, two
\* distinct nodes never get the same path in the table of list_categories
\* (for 'file' without system nodes: in a tree with its one root).
C14_PathsDistinct ==
    (Listed_ok /\ DistinctSiblingNames
       /\ ((resource = "file" /\ ~with_system) => SingleRoot)) =>
        \A i, j \in 1..Len(category_table) :
            category_table[i].path = category_table[j].path => i = j

\* C14 amended: the same when no two siblings have the same escaped name,
\* that is the same name once every '/' is read as a backslash.
C14_PathsDistinctEscaped ==
    (Listed_ok /\ DistinctEscapedSiblingNames
       /\ ((resource = "file" /\ ~with_system) => SingleRoot)) =>
        \A i, j \in 1..Len(category_table) :
            category_table[i].path = category_table[j].path => i = j

\* Three listed nodes on two levels, one of them named with the separator.
C14_Witness ==
    /\ Listed_ok /\ DistinctEscapedSiblingNames /\ Len(category_table) = 3
    /\ \E r, q \in TableRows : r.parentId = q.id /\ r.text = q.text
    /\ \E r \in TableRows : r.text = <<"/">>
    /\ \A i, j \in 1..3 : category_table[i].path = category_table[j].path => i = j

\* C15: list_categories(include_system=True) returns one row per node of the
\* tree whatever its depth, carrying the node's attributes; the path of a row
\* is the path of its parent's row (empty for a root) + '/' + the escaped
\* name; the rows are in ascending order of path.
C15_OneRowPerNode ==
    (Listed_ok /\ with_system) =>
        /\ Len(category_table) = Cardinality(remote)
        /\ \A n \in remote : \E r \in TableRows :
              /\ r.id = n.id /\ r.text = n.text /\ r.parentId = n.parentId
              /\ r.number = n.number /\ r.isSystem = n.isSystem
              /\ r.path = (IF n.parentId = 0 THEN <<>>
                           ELSE (CHOOSE q \in TableRows : q.id = n.parentId).path)
                              \o <<"/">> \o Escape(n.text)
        /\ \A i, j \in 1..Len(category_table) :
              i < j => ~StrLess(category_table[j].path, category_table[i].path)

\* Three nodes on two levels, the lower one named with the separator, whose
\* order of paths is not the order of their ids.
C15_Witness ==
    /\ Listed_ok /\ with_system /\ Len(category_table) = 3
    /\ \E r \in TableRows : r.parentId # 0 /\ "/" \in Chars(r.text)
    /\ category_table[1].id > category_table[2].id

\* C16 as claimed: with include_system=False the rows are the nodes that are
\* no system nodes, each with its path less the first segment, for every
\* resource.
C16_StripEveryResource ==
    (Listed_ok /\ ~with_system) =>
        /\ TableIds = {n.id : n \in {m \in remote : ~m.isSystem}}
        /\ \A r \in TableRows : FirstSegment(NodeOf(r.id)) \o r.path = FullPath(NodeOf(r.id))

\* C16 amended: the first segment is stripped for resource 'file' only; for
\* every other resource the rows keep their full path.
C16_StripFileOnly ==
    (Listed_ok /\ ~with_system) =>
        /\ TableIds = {n.id : n \in {m \in remote : ~m.isSystem}}
        /\ Len(category_table) = Cardinality(TableIds)
        /\ \A r \in TableRows :
              IF resource = "file"
              THEN FirstSegment(NodeOf(r.id)) \o r.path = FullPath(NodeOf(r.id))
              ELSE r.path = FullPath(NodeOf(r.id))

\* A system root with two levels below it, listed for 'file'.
C16_Witness ==
    /\ Listed_ok /\ ~with_system /\ resource = "file"
    /\ \E n \in remote : n.isSystem /\ n.parentId = 0
    /\ \E r \in TableRows : Len(Split(r.path)) = 3 /\ Len(Split(FullPath(NodeOf(r.id)))) = 4

\* Some collection of nodes, at the top level or below a node, is present,
\* not null and not a list.
Malformed ==
    \E i \in DOMAIN tree_data : tree_data[i] \in {"dict", "str"}

\* C17: list_categories raises the malformed-tree ValueError whenever some
\* collection of nodes is present, not null and not a list, and a node whose
\* 'data' is absent or null is a leaf that raises nothing.
C17_MalformedTree ==
    pc = "listed" =>
        /\ Malformed => err = "ValueError"
        /\ (~Malformed /\ tree_data[0] = "list") => err = "ok"

\* The table of list_files before and after the invocation.
FilesBefore == list_files(pre, files_before)
FilesAfter == list_files(remote, remote_files)

\* The remote paths of the local files.
LocalRemotePaths == {remote_path(l) : l \in local_dir}

\* The listed path of a remote category, "/" standing for no category.
CategoryPathOf(id) ==
    LET table == list_categories(remote, "file", FALSE)
    IN  IF \E i \in 1..Len(table) : table[i].id = id
        THEN table[CHOOSE i \in 1..Len(table) : table[i].id = id].path
        ELSE <<"/">>

\* C18: after a successful mirror_directory(dir, delete_files=True) the remote
\* file paths are the paths "/" + relative path of the local files, one
\* remote file each, lying in the category that is listed under the path of
\* its local folder and in no category for a file of the mirror root; no
\* remote file is left for an empty directory.
C18_Mirrored ==
    (Returned /\ args.delete_files /\ err = "ok") =>
        /\ {r.path : r \in FilesAfter} = LocalRemotePaths
        /\ Cardinality(remote_files) = Cardinality(local_dir)
        /\ \A l \in local_dir : \E f \in remote_files :
              /\ f.name = BaseName(l.path)
              /\ CategoryPathOf(f.categoryId) = remote_category(l)
              /\ remote_category(l) = <<"/">> => f.categoryId = 0
        /\ local_dir = {} => remote_files = {}

\* One remote file deleted, one replaced and one uploaded into a category the
\* call created.
C18_Witness ==
    /\ pc = "returned" /\ args.delete_files /\ err = "ok"
    /\ Issued("file_delete") # {}
    /\ \E i \in Issued("upload") : log[i].id # 0
    /\ \E i \in Issued("upload") : \E j \in Issued("create") :
          log[i].id = 0 /\ log[i].parentId = log[j].id

\* C19: when the local and the remote files have the same paths, no two
\* remote files the same one, and no local file is newer than the remote file
\* of its path, mirror_directory issues no upload and no file delete call,
\* whatever delete_files and delete_categories are.
C19_NothingToDo ==
    (Returned
       /\ {r.path : r \in FilesBefore} = LocalRemotePaths
       /\ Cardinality(FilesBefore) = Cardinality(LocalRemotePaths)
       /\ \A l \in local_dir : \A r \in FilesBefore :
              r.path = remote_path(l) => l.mtime <= r.lastUpdated) =>
        /\ Issued("upload") = {}
        /\ Issued("file_delete") = {}
        /\ remote_files = files_before

\* Two files, one of them in a nested folder and as old as its remote file,
\* mirrored with delete_files set.
C19_Witness ==
    /\ pc = "returned" /\ args.delete_files /\ err = "ok"
    /\ Cardinality(local_dir) = 2
    /\ {r.path : r \in FilesBefore} = LocalRemotePaths
    /\ \E l \in local_dir : \E r \in FilesBefore :
          /\ r.path = remote_path(l) /\ l.mtime = r.lastUpdated
          /\ Len(Split(r.path)) = 4
    /\ Issued("upload") = {} /\ Issued("file_delete") = {}

\* The calls of the invocation that change the remote: all but the listings.
MirrorMutating == {i \in 1..Len(log) : log[i].op \notin {"list_files", "list"}}

\* The second of two invocations with delete_files=True and
\* delete_categories=True, the first of which succeeded.
SecondMirror ==
    /\ pc = "repeated" /\ first.err = "ok"
    /\ args.delete_files /\ args.delete_categories

\* C20 as claimed: the second call issues no mutating remote call of any kind.
C20_SecondCallSilent == SecondMirror => MirrorMutating = {}

\* C20 amended: the second call issues one mutating call, the purge of the
\* recycle bin, and no file delete, category delete or create, or upload; the
\* remote files and categories stay as the first call left them.
C20_SecondCallPurgesOnly ==
    SecondMirror =>
        /\ Cardinality(MirrorMutating) = 1
        /\ \A i \in MirrorMutating : log[i].op = "empty_archive"
        /\ remote_files = files_before
        /\ remote = pre

\* The first call deleted a remote file and uploaded a local one.
C20_Witness ==
    /\ SecondMirror
    /\ \E i \in 1..Len(first.log) : first.log[i].op = "file_delete"
    /\ \E i \in 1..Len(first.log) : first.log[i].op = "upload"
    /\ \E i \in 1..Len(first.log) : first.log[i].op = "create"

\* The remote files deleted by the invocation, by id.
DeletedFileIds ==
    UNION {{log[i].ids[k] : k \in 1..Len(log[i].ids)} : i \in Issued("file_delete")}

\* The rows of the table of list_files the invocation goes on with: those
\* it did not delete.
KeptRows == {r \in FilesBefore : r.id \notin DeletedFileIds}

\* C21: with delete_files=False no file delete call and no purge of the
\* recycle bin is issued, every remote file that existed before exists after,
\* and a remote file without a newer local file of its path is as it was.
C21_FilesKept ==
    (Returned /\ ~args.delete_files) =>
        LET listed == FilesBefore
        IN  /\ Issued("file_delete") = {}
            /\ Issued("empty_archive") = {}
            /\ \A f \in files_before : \E g \in remote_files : g.id = f.id
            /\ \A r \in listed :
                  (\A l \in local_dir : ~(remote_path(l) = r.path /\ l.mtime > r.lastUpdated))
                      => \E g \in remote_files :
                            g.id = r.id /\ g.lastUpdated = r.lastUpdated /\ g \in files_before

\* A remote file without local file and one with a newer local file, in a
\* call that succeeds.
C21_Witness ==
    /\ pc = "returned" /\ ~args.delete_files /\ err = "ok"
    /\ \E r \in FilesBefore : r.path \notin LocalRemotePaths
    /\ \E i \in Issued("upload") : log[i].id # 0
    /\ Cardinality(remote_files) = 2

\* C22: with delete_files=True the files deleted are the remote files without
\* local file of their path and, of the remote files of one path, all but the
\* one listed first; they go in one delete call, and none is issued when there
\* is none; the purge of the recycle bin is issued once, after the delete call
\* and before every category call (listing, delete, create) of the invocation.
C22_DeleteThenPurge ==
    (Returned /\ args.delete_files) =>
        LET listed == FilesBefore
            local == LocalRemotePaths
            deleted == DeletedFileIds
            kept == {r \in listed : r.id \notin deleted}
        IN  /\ \A r \in listed : r.path \notin local => r.id \in deleted
            /\ \A r \in listed : r.path \in local =>
                  Cardinality({q \in kept : q.path = r.path}) = 1
            /\ deleted \subseteq {r.id : r \in listed}
            /\ Cardinality(Issued("file_delete")) = (IF deleted = {} THEN 0 ELSE 1)
            /\ \A i \in Issued("file_delete") :
                  \A k, l \in 1..Len(log[i].ids) : log[i].ids[k] = log[i].ids[l] => k = l
            /\ \A f \in remote_files : f.id \notin deleted
            /\ Cardinality(Issued("empty_archive")) = 1
            /\ \A i \in Issued("file_delete") : \A j \in Issued("empty_archive") : i < j
            /\ \A j \in Issued("empty_archive") :
                  \A k \in Issued("list") \cup Issued("delete") \cup Issued("create") : j < k
            /\ recycle_bin = {}

\* Two remote files of one path that a local file has, one of them deleted,
\* in a call that goes on to create a category.
C22_Witness ==
    /\ pc = "returned" /\ args.delete_files
    /\ \E r, q \in FilesBefore :
          /\ r # q /\ r.path = q.path /\ r.path \in LocalRemotePaths
          /\ r.id \in DeletedFileIds /\ q.id \notin DeletedFileIds
    /\ Issued("create") # {}

\* Two of the remote files the invocation goes on with have the same path.
DuplicatesKept == \E r, q \in KeptRows : r # q /\ r.path = q.path

\* C23: mirror_directory aborts with the duplicate-path error exactly when the
\* remote files it goes on with after the deletion step hold two files of one
\* path (which needs delete_files=False), and no upload call is issued then.
C23_DuplicateAbort ==
    Returned =>
        /\ err = "DuplicateFiles" <=> DuplicatesKept
        /\ DuplicatesKept => ~args.delete_files
        /\ err = "DuplicateFiles" => Issued("upload") = {}

\* The upload calls of the invocation for a local file.
UploadsOf(l) == {i \in Issued("upload") : log[i].path = remote_path(l)}

\* The id of the category listed under the path of the file's folder, 0 for
\* the mirror root.
FolderCategory(table, l) ==
    IF remote_category(l) = <<"/">> THEN 0
    ELSE table[CHOOSE i \in 1..Len(table) : table[i].path = remote_category(l)].id

\* C24: in an invocation that completes, every local file has at most one
\* upload call: a replacing one with the id of the remote file of its path
\* iff there is such a file and the local one is strictly newer (the remote
\* file keeps its id), a new one iff there is no remote file of its path, and
\* none otherwise; every upload names the category of the file's folder, none
\* for the mirror root, and every upload call is that of a local file.
C24_OneOutcomePerFile ==
    (Returned /\ err = "ok") =>
        LET kept == KeptRows
            table == list_categories(remote, "file", FALSE)
        IN  /\ \A l \in local_dir :
                  LET match == {r \in kept : r.path = remote_path(l)}
                      uploads == UploadsOf(l)
                  IN  /\ Cardinality(uploads) <= 1
                      /\ Cardinality(match) <= 1
                      /\ (\E i \in uploads : log[i].id = 0) <=> match = {}
                      /\ \A r \in match :
                            /\ (\E i \in uploads : log[i].id = r.id) <=> l.mtime > r.lastUpdated
                            /\ \A i \in uploads : log[i].id = r.id
                            /\ \E f \in remote_files : f.id = r.id
                      /\ \A i \in uploads :
                            /\ log[i].parentId = FolderCategory(table, l)
                            /\ log[i].name = BaseName(l.path)
            /\ \A i \in Issued("upload") : \E l \in local_dir : i \in UploadsOf(l)

\* One local file replaces its remote file and the other, in a folder, is
\* left alone, its remote file being as new.
C24_Witness ==
    /\ pc = "returned" /\ err = "ok" /\ Cardinality(local_dir) = 2
    /\ \E l \in local_dir : \E i \in UploadsOf(l) : log[i].id # 0
    /\ \E l \in local_dir :
          /\ UploadsOf(l) = {} /\ remote_category(l) # <<"/">>
          /\ \E r \in KeptRows : r.path = remote_path(l) /\ r.lastUpdated = l.mtime

\* The state of the remote categories the claims compare: the listed paths,
\* each with its number.
CategoryState(tree) == {<<r.path, r.number>> : r \in Rows(CategoryList(tree))}

\* The first invocation ended in a failed remote call, and was repeated.
RepeatedAfterFailure ==
    /\ pc = "repeated" /\ first.err = "ApiError"
    /\ \E i \in 1..Len(first.log) : first.log[i].result = "failed"

\* The states an invocation with the arguments of the repeated one may end
\* in when started on the tree the first invocation found and no call fails.
UnfailedStates ==
    {CategoryState(o.tree) :
        o \in update_categories(first.tree, Len(PoolPaths) + 2, resource,
                                [args EXCEPT !.failAt = 0])}

\* C25: when a remote call of update_categories fails and the invocation is
\* repeated with the same arguments, without failure, the remote categories
\* end with the paths and numbers that one invocation without failure, on the
\* tree the failed one started on, can end with.
C25_Converges ==
    RepeatedAfterFailure => CategoryState(remote) \in UnfailedStates

\* The id the path->id map of the invocation holds for a path when a create
\* call below it is issued: that of the create call of the path if there is
\* one, else the listed one.
MappedId(rows, path) ==
    IF \E i \in Issued("create") : log[i].path = path
    THEN log[CHOOSE i \in Issued("create") : log[i].path = path].id
    ELSE (CHOOSE r \in rows : r.path = path).id

\* C30: within one invocation no two create calls carry the same path and
\* none carries a listed path; a create call below another category names
\* as parent the id of the category created or listed under the parent path.
C30_CreateOncePerPath ==
    (Returned /\ Issued("create") # {}) =>
        LET created == Issued("create")
            rows == Rows(Before)
        IN  /\ \A i, j \in created : log[i].path = log[j].path => i = j
            /\ \A i \in created : \A r \in rows : r.path # log[i].path
            /\ \A i \in created :
                  ~IsRootPath(log[i].path) =>
                      log[i].parentId = MappedId(rows, ParentPath(log[i].path))

\* Two target paths below one missing category: it is created once and both
\* branches name it as parent.
C30_Witness ==
    /\ pc = "returned" /\ err = "ok"
    /\ \E i, j, k \in Issued("create") :
          /\ j # k /\ i < j /\ i < k
          /\ log[j].parentId = log[i].id /\ log[k].parentId = log[i].id
          /\ \E t, u \in args.target :
                t # u /\ log[j].path \in PathAndAncestors(t) /\ log[k].path \in PathAndAncestors(u)
                /\ log[i].path \in PathAndAncestors(t) \cap PathAndAncestors(u)

\* The call of request_with_retry has ended.
RetryEnded == rpc \in {"returned", "raised"}

\* The outcome of the last request requests_sent.
LastSent == requests_sent[Len(requests_sent)]

\* An outcome after which request_with_retry sends the request again.
Retried(outcome) ==
    \/ outcome.kind = "response" /\ outcome.status = 429
    \/ outcome.kind = "exception" /\ outcome.name \in {"MaxRetryError", "ConnectionError"}

\* What a call of request_with_retry may do and end in.
RetrySafety ==
    /\ Len(requests_sent) <= 3
    /\ \A k \in 1..(Len(requests_sent) - 1) : Retried(requests_sent[k])
    /\ RetryEnded =>
          /\ Len(requests_sent) >= 1
          /\ Retried(LastSent) => Len(requests_sent) = 3
          /\ rpc = "returned" <=> (LastSent.kind = "response" /\ LastSent.status = 200)
          /\ rpc = "returned" => return_value = LastSent
          /\ (LastSent.kind = "response" /\ LastSent.status # 200) => raised = "HTTPError"
          /\ LastSent.kind = "exception" => raised = LastSent.name

\* C27: request_with_retry sends the request at most three times, again only
\* after a 429 response or a connection error and then whenever fewer than
\* three requests were requests_sent; it returns only a response of status 200, raises
\* HTTPError for a last response of another status, raises the connection
\* error of the third request, and every call ends.
C27_RetryThenEnd == []RetrySafety /\ <>RetryEnded

\* A call that returns the answer to its third request, after a 429 response
\* and a connection error.
C27_Witness ==
    /\ rpc = "returned" /\ Len(requests_sent) = 3
    /\ requests_sent[1].status = 429 /\ requests_sent[2].name = "ConnectionError"

\* The call of upload_file has ended.
UploadEnded == pc \in {"returned", "raised"}

\* The kinds of the calls upload_file issued, in order.
UploadOps == [i \in 1..Len(log) |-> log[i].op]

\* The PUT of the content was answered with status 200.
PutSucceeded ==
    /\ requests_sent # <<>>
    /\ requests_sent[Len(requests_sent)] = HttpResponse(200)

\* C26: upload_file issues the prepare call, then the PUT to the write URL
\* of the prepare response, then one call: persist with the prepared file id
\* when no id is given, update with the given id and replaceWith the prepared
\* file id otherwise; it returns the prepared id, or the given id as int; no
\* persist or update call is issued unless the PUT was answered with 200.
C26_UploadOrder ==
    UploadEnded =>
        /\ \/ UploadOps \in {<<>>, <<"prepare">>, <<"prepare", "put">>}
           \/ args.id = NoId /\ UploadOps = <<"prepare", "put", "persist">>
           \/ args.id # NoId /\ UploadOps = <<"prepare", "put", "update">>
        /\ Len(log) >= 2 =>
              /\ Len(log[1].data) = 1
              /\ log[2].url = log[1].data[1].writeUrl
        /\ Len(log) = 3 =>
              /\ PutSucceeded
              /\ args.id = NoId => log[3].ids = log[1].data[1].fileId
              /\ args.id # NoId =>
                    log[3].id = args.id /\ log[3].replaceWith = log[1].data[1].fileId
        /\ (Len(log) >= 2 /\ PutSucceeded) => Len(log) = 3
        /\ pc = "returned" =>
              /\ Len(log) = 3 /\ log[3].result = "ok"
              /\ args.id = NoId => return_value = log[1].data[1].fileId
              /\ args.id # NoId =>
                    return_value.type = "int" /\ return_value.value = args.id.value

\* A file replaced under an id given as str, the PUT answered at the second
\* request.
C26_Witness ==
    /\ pc = "returned" /\ args.id = StrId(1)
    /\ Len(requests_sent) = 2
    /\ UploadOps = <<"prepare", "put", "update">>

cache_clear(cached) == IF cached THEN "AttributeError" ELSE "ok"

\* The outcome of an operation of the cached client: the remote state
\* reached, the value returned, whether invalidate_files_cache() was reached,
\* and the files cache as list_files left it.
Outcome(m, value, invalidated, cache, time) ==
    [tree |-> m.tree, nextId |-> m.nextId, files |-> m.files, bin |-> m.bin,
     log |-> m.log, err |-> m.err, value |-> value, invalidated |-> invalidated,
     cache |-> cache, time |-> time]

\* One remote call of upload_file, the failAt-th of which fails.
UploadRequest(m, op, k, id, file_name, category, failAt) ==
    [m EXCEPT !.log = Append(@, Call(op, <<>>, id, <<>>, file_name, 0, category,
                                     IF k = failAt THEN "failed" ELSE "ok")),
              !.err = IF k = failAt THEN "ApiError" ELSE "ok"]

\* CashCtrlClient.upload_file(file, id, name, category) (client.py lines
\* 463-528) on a client that is cached or not; id = 0 stands for id=None.
\* Gives the state reached and the value returned.
upload_file(m, cached, file_name, category, id, failAt) ==
    LET prepared_id == m.nextId
        m1 == UploadRequest(m, "prepare", 1, 0, file_name, category, failAt)
        m2 == UploadRequest([m1 EXCEPT !.nextId = @ + 1], "put", 2, prepared_id,
                            file_name, category, failAt)
        m3 == UploadRequest(m2, "upload", 3, id, file_name, category, failAt)
        stored == IF id = 0
                  THEN m2.files \cup {File(prepared_id, file_name, category, Now)}
                  ELSE {IF f.id = id THEN File(f.id, file_name, category, Now) ELSE f
                            : f \in m2.files}
        fid == IF id = 0 THEN prepared_id ELSE id
        done == [m3 EXCEPT !.files = stored, !.err = cache_clear(cached)]
    IN  IF m1.err # "ok" THEN [state |-> m1, value |-> None]
        ELSE IF m2.err # "ok" THEN [state |-> m2, value |-> None]
        ELSE IF m3.err # "ok" THEN [state |-> m3, value |-> None]
        ELSE [state |-> done, value |-> IF done.err = "ok" THEN Some(fid) ELSE None]

\* CachedCashCtrlClient.upload_file(*args, **kwargs) (cashed_client.py lines
\* 155-157): the value of super().upload_file() is dropped, and the cache is
\* invalidated when super().upload_file() returns.
cached_upload_file(m, file_name, category, id, failAt, cache, time) ==
    LET base == upload_file(m, TRUE, file_name, category, id, failAt)
    IN  IF base.state.err # "ok" THEN Outcome(base.state, None, FALSE, cache, time)
        ELSE Outcome(base.state, None, TRUE, None, None)

\* CachedCashCtrlClient.update_categories('file', ...) (cashed_client.py lines
\* 159-164): super().update_categories() ends with
\* self.list_files.cache_clear() (client.py lines 338-339); the cache is
\* invalidated when it returns.
cached_update_categories(m, a, cache, time) ==
    { LET base == [m EXCEPT !.tree = out.tree, !.nextId = out.nextId,
                            !.log = @ \o out.log,
                            !.err = IF out.err = "ok" THEN cache_clear(TRUE) ELSE out.err]
      IN  IF base.err # "ok" THEN Outcome(base, None, FALSE, cache, time)
          ELSE Outcome(base, None, TRUE, None, None)
      : out \in update_categories(m.tree, m.nextId, "file", a) }

\* categories / category_map of mirror_directory (client.py lines 586-588)
CategoryMap(tree) ==
    LET categories == list_categories(tree, "file", FALSE)
    IN  [q \in Paths(categories) \cup {<<"/">>} |->
            IF q = <<"/">> THEN 0
            ELSE categories[CHOOSE i \in 1..Len(categories) : categories[i].path = q].id]

\* Lines 586-620 of mirror_directory on a cached client: every
\* self.upload_file() is the override, and line 620 clears the cache of the
\* base class.
CachedUploadFiles(o, kept, local) ==
    LET m == [tree |-> o.tree, nextId |-> o.nextId, files |-> o.files, bin |-> o.bin,
              log |-> o.log, err |-> o.err]
        listed == Logged(m, "list", <<>>, 0, <<>>, <<>>, 0)
        jobs == to_update(local, kept) \o to_upload(local, kept)
    IN  IF \E r, q \in kept : r # q /\ r.path = q.path
        THEN Outcome([listed EXCEPT !.err = "DuplicateFiles"], None, o.invalidated,
                     o.cache, o.time)
        ELSE IF jobs = <<>>
        THEN Outcome([listed EXCEPT !.err = cache_clear(TRUE)], None, o.invalidated,
                     o.cache, o.time)
        ELSE LET category == remote_category(jobs[1].file)
             IN  IF category \notin DOMAIN CategoryMap(m.tree)
                 THEN Outcome([listed EXCEPT !.err = "KeyError"], None, o.invalidated,
                              o.cache, o.time)
                 ELSE LET up == cached_upload_file(listed, BaseName(jobs[1].file.path),
                                                   CategoryMap(m.tree)[category],
                                                   jobs[1].id, 0, o.cache, o.time)
                      IN  [up EXCEPT !.invalidated = o.invalidated,
                                     !.cache = o.cache, !.time = o.time]

\* CachedCashCtrlClient.list_files() (cashed_client.py lines 101-111) called
\* at the time now: the cache it leaves and the remote calls it issued.
cached_list_files(cache, time, now, timeout, tree, files) ==
    IF ~cache.set \/ is_expired(time, now, timeout)
    THEN [cache |-> Some(BaseListFiles(tree, files).table), time |-> Some(now),
          fetched |-> TRUE]
    ELSE [cache |-> cache, time |-> time, fetched |-> FALSE]

\* CachedCashCtrlClient.mirror_directory(directory, delete_files,
\* delete_categories) (cashed_client.py lines 151-153; client.py lines
\* 541-620 with self.list_files, self.update_categories and self.upload_file
\* of the cached client): the set of possible outcomes.
cached_mirror_directory(m, local, a, listing) ==
    LET listed == listing.cache.value
        m0 == IF listing.fetched THEN Logged(m, "list_files", <<>>, 0, <<>>, <<>>, 0)
              ELSE m
        target == {remote_category(l) : l \in local}
        update_args == [target |-> target, number |-> [t \in target |-> 0],
                        isDict |-> FALSE, delete |-> a.delete_categories,
                        ignore |-> FALSE, failAt |-> 0]
    IN  UNION { LET m1 == DeleteFiles(m0, listed, firsts, local, a)
                    kept == IF a.delete_files
                            THEN listed \ files_to_delete(listed, firsts, local)
                            ELSE listed
                IN  { IF updated.err # "ok" THEN updated
                      ELSE LET up == CachedUploadFiles(updated, kept, local)
                           IN  IF up.err # "ok" THEN up
                               ELSE [up EXCEPT !.invalidated = TRUE,
                                               !.cache = None, !.time = None]
                      : updated \in cached_update_categories(m1, update_args,
                                                             listing.cache, listing.time) }
              : firsts \in {K \in SUBSET listed :
                               \A r \in listed :
                                   Cardinality({k \in K : k.path = r.path}) = 1} }

\* The remote file categories while the operations of the cached client are
\* observed: none, or /a.
CachedShapes == {{}, {1}}

\* The local directory handed to mirror_directory: at most one file.
CachedDirs == {d \in LocalDirs : Cardinality(d) <= 1}

\* The targets handed to update_categories: at most one path.
CachedArguments ==
    {a \in Arguments(FALSE, {0, 1}) : Cardinality(a.target) <= 1 /\ ~a.ignore}

\* A CachedCashCtrlClient and the remote it talks to (cashed_client.py lines
\* 21-43).
CachedInit ==
    /\ resource = "file"
    /\ \E S \in CachedShapes :
          /\ remote = InitTree("file", S)
          /\ remote_files \in {F \in RemoteFileSets(S) : Cardinality(F) <= 1}
    /\ local_dir \in CachedDirs
    /\ recycle_bin = {} /\ files_before = {}
    /\ nextId = Len(PoolPaths) + 2
    /\ args = NoArguments /\ pre = {} /\ log = <<>> /\ first = NoOutcome
    /\ files_cache = None /\ files_cache_time = None
    /\ cache_timeout \in CacheTimeouts
    /\ clock = 0
    /\ cache_before = [cache |-> None, time |-> None]
    /\ return_value = None
    /\ pc = "new" /\ err = "none"
    /\ ListIdle /\ NameIdle /\ RetryIdle
    /\ new_file_id = "None" /\ write_url = "None" /\ file_system = {}
    /\ ProffixIdle

\* The remote the operation starts on.
CachedStart ==
    [tree |-> remote, nextId |-> nextId, files |-> remote_files, bin |-> recycle_bin,
     log |-> <<>>, err |-> "ok"]

\* The operation ends with the outcome out.
CachedEnd(out, a) ==
    /\ remote' = out.tree
    /\ nextId' = out.nextId
    /\ remote_files' = out.files
    /\ recycle_bin' = out.bin
    /\ log' = out.log
    /\ err' = out.err
    /\ return_value' = out.value
    /\ files_cache' = out.cache
    /\ files_cache_time' = out.time
    /\ cache_before' = [cache |-> files_cache, time |-> files_cache_time]
    /\ pre' = remote
    /\ files_before' = remote_files
    /\ args' = a
    /\ pc' = "mutated"
    /\ UNCHANGED <<resource, local_dir, first, listVars, nameVars, retryVars, uploadVars,
                   cache_timeout, clock, file_system, proffixVars>>

\* The caller uploads a file, as a new file or in place of a remote file.
CachedUploadFile ==
    /\ err = "none"
    /\ \E file_name \in {<<"f">>, <<"h">>},
          category \in {0} \cup {n.id : n \in {c \in remote : ~c.isSystem}},
          id \in {0} \cup {f.id : f \in remote_files},
          failAt \in 0..3 :
          CachedEnd(cached_upload_file(CachedStart, file_name, category, id, failAt,
                                       files_cache, files_cache_time),
                    [op |-> "upload_file", name |-> file_name, category |-> category,
                     id |-> id, failAt |-> failAt])

\* The caller updates the file categories.
CachedUpdateCategories ==
    /\ err = "none"
    /\ \E a \in CachedArguments :
          \E out \in cached_update_categories(CachedStart, a, files_cache, files_cache_time) :
              CachedEnd(out, [op |-> "update_categories", target |-> a.target,
                              delete |-> a.delete, failAt |-> a.failAt])

\* The caller mirrors the local directory.
CachedMirrorDirectory ==
    /\ err = "none"
    /\ \E df, dc \in BOOLEAN :
          LET a == [delete_files |-> df, delete_categories |-> dc]
              listing == cached_list_files(files_cache, files_cache_time, clock,
                                           cache_timeout, remote, remote_files)
          IN  \E out \in cached_mirror_directory(CachedStart, local_dir, a, listing) :
                  CachedEnd(out, [op |-> "mirror_directory", delete_files |-> df,
                                  delete_categories |-> dc, failAt |-> 0])

CachedNext ==
    ListFiles \/ Tick \/ CachedUploadFile \/ CachedUpdateCategories \/ CachedMirrorDirectory

CachedSpec == CachedInit /\ [][CachedNext]_vars

\* The depth of nested calls after which Python raises RecursionError.
RecursionLimit == 5

\* The session ids the server hands out, and the status codes it answers.
SessionIds == {1, 2}
ProffixStatusCodes == {200, 401, 500}

\* response.ok
ok(status_code) == status_code < 400

\* A call in progress: the function, the request it is about, where it is,
\* and the last response it received.
Frame(fn, method, endpoint, at, last) ==
    [fn |-> fn, method |-> method, endpoint |-> endpoint, at |-> at, response |-> last]

\* A request sent to the server with the session id of its header (0: none),
\* and the status code and the session id of the answer.
Sent(method, endpoint, session, status_code, carried) ==
    [method |-> method, endpoint |-> endpoint, session |-> session, status |-> status_code,
     carried |-> carried]

NoAnswer == [status |-> 0, session |-> 0]

\* self._session_id: None, or the id of a session.
NoSession == [set |-> FALSE, value |-> 0]
Session(id) == [set |-> TRUE, value |-> id]

\* A ProffixAPIClient that is logged in or was logged out (lines 56-66,
\* 85-89), and a call by the caller: request(method, endpoint) or logout().
ProffixInit ==
    /\ session_id \in {NoSession, Session(1)}
    /\ frames \in {<<Frame("request", "GET", "endpoint", "enter", NoAnswer)>>,
                   <<Frame("logout", "", "", "enter", NoAnswer)>>}
    /\ traffic = <<>>
    /\ ended = "none"
    /\ resource = "file" /\ remote = {} /\ pc = "idle" /\ err = "none"
    /\ UpdateIdle /\ ListIdle /\ NameIdle /\ FilesIdle /\ RetryIdle /\ CacheIdle
    /\ return_value = "None" /\ new_file_id = "None" /\ write_url = "None"
    /\ file_system = {}

ProffixFrame ==
    UNCHANGED <<resource, remote, pc, err, updVars, listVars, nameVars, fileVars,
                retryVars, return_value, uploadVars, cacheVars, file_system>>

\* The call on top of the stack.
Top == frames[Len(frames)]

\* The call on top goes on at the position at, with the response last.
Goto(at, last) ==
    /\ frames' = [frames EXCEPT ![Len(frames)] = [@ EXCEPT !.at = at, !.response = last]]
    /\ ended' = ended

\* An exception that nothing catches ends every call in progress.
Raise(exception) == frames' = <<>> /\ ended' = exception

\* The call on top returns to its caller.
Return ==
    /\ frames' = SubSeq(frames, 1, Len(frames) - 1)
    /\ ended' = IF Len(frames) = 1 THEN "returned" ELSE ended

\* The call on top calls callee and goes on at the position at afterwards.
Invoke(callee, at) ==
    IF Len(frames) >= RecursionLimit THEN Raise("RecursionError")
    ELSE /\ frames' = Append([frames EXCEPT ![Len(frames)] = [@ EXCEPT !.at = at]], callee)
         /\ ended' = ended

\* self.login() (lines 69-82) and the assignment of its value to
\* self._session_id, then the call on top goes on at the position at.
Login(at) ==
    \E status_code \in ProffixStatusCodes, id \in SessionIds :
        /\ traffic' = Append(traffic, Sent("POST", "PRO/LOGIN", 0, status_code, id))
        /\ IF ok(status_code)
           THEN session_id' = Session(id) /\ Goto(at, Top.response)
           ELSE session_id' = session_id /\ Raise("ProffixAPIError")

\* requests.request(...) with the stored session id in the header (lines
\* 96-101, 107-109), then the call on top goes on at the position at.
SendRequest(at) ==
    \E status_code \in ProffixStatusCodes, id \in SessionIds :
        /\ traffic' = Append(traffic, Sent(Top.method, Top.endpoint, session_id.value,
                                           status_code, id))
        /\ Goto(at, [status |-> status_code, session |-> id])
        /\ session_id' = session_id

\* request: lines 94-95
RequestEnter ==
    /\ frames # <<>> /\ Top.fn = "request" /\ Top.at = "enter"
    /\ IF ~session_id.set THEN Login("send")
       ELSE Goto("send", Top.response) /\ UNCHANGED <<session_id, traffic>>
    /\ ProffixFrame

\* request: lines 96-101
RequestSend ==
    /\ frames # <<>> /\ Top.fn = "request" /\ Top.at = "send"
    /\ SendRequest("sent")
    /\ ProffixFrame

\* request: lines 102-105, the call of self.logout()
RequestUnauthorized ==
    /\ frames # <<>> /\ Top.fn = "request" /\ Top.at = "sent"
    /\ IF Top.response.status = 401
       THEN Invoke(Frame("logout", "", "", "enter", NoAnswer), "login")
       ELSE Goto("check", Top.response)
    /\ UNCHANGED <<session_id, traffic>>
    /\ ProffixFrame

\* request: line 106
RequestLogin ==
    /\ frames # <<>> /\ Top.fn = "request" /\ Top.at = "login"
    /\ Login("resend")
    /\ ProffixFrame

\* request: lines 107-109
RequestResend ==
    /\ frames # <<>> /\ Top.fn = "request" /\ Top.at = "resend"
    /\ SendRequest("check")
    /\ ProffixFrame

\* request: lines 110-115
RequestCheck ==
    /\ frames # <<>> /\ Top.fn = "request" /\ Top.at = "check"
    /\ IF ~ok(Top.response.status)
       THEN Raise("ProffixAPIError") /\ session_id' = session_id
       ELSE session_id' = Session(Top.response.session) /\ Return
    /\ UNCHANGED traffic
    /\ ProffixFrame

\* logout: lines 86-87, the call of self.request("DELETE", "PRO/LOGIN")
LogoutEnter ==
    /\ frames # <<>> /\ Top.fn = "logout" /\ Top.at = "enter"
    /\ IF session_id.set
       THEN Invoke(Frame("request", "DELETE", "PRO/LOGIN", "enter", NoAnswer), "clear")
       ELSE Return
    /\ UNCHANGED <<session_id, traffic>>
    /\ ProffixFrame

\* logout: line 88
LogoutClear ==
    /\ frames # <<>> /\ Top.fn = "logout" /\ Top.at = "clear"
    /\ session_id' = NoSession
    /\ Return
    /\ UNCHANGED traffic
    /\ ProffixFrame

ProffixNext ==
    \/ RequestEnter \/ RequestSend \/ RequestUnauthorized \/ RequestLogin
    \/ RequestResend \/ RequestCheck \/ LogoutEnter \/ LogoutClear

\* The interpreter runs a call in progress on.
ProffixSpec == ProffixInit /\ [][ProffixNext]_vars /\ WF_vars(ProffixNext)

\* The entries of the listed directory the call looks at: all with
\* recursive=True, else those directly in it; files only with exclude_dirs.
Looked ==
    {e \in file_system.entries :
        /\ args.recursive \/ Len(e.parts) = 1
        /\ ~args.exclude_dirs \/ e.is_file}

\* A part of the entry's path relative to the listed directory starts with
\* a dot.
HiddenInside(e) == \E i \in 1..Len(e.parts) : e.parts[i][1] = "."

\* C29: list_directory lists, of the entries it looks at, all with
\* include_hidden=True and else exactly those without a part starting with
\* '.' in their path relative to the directory, wherever the directory is.
C29_HiddenInside ==
    (pc = "returned" /\ err = "ok") =>
        return_value =
            {as_posix(e.parts) : e \in {x \in Looked : args.include_hidden \/ ~HiddenInside(x)}}

\* The directory is below no hidden directory and is not given with "..".
PlainDirectory ==
    \A i \in 1..Len(file_system.directory) : file_system.directory[i][1] # "."

\* The ids of the categories created by the calls of the invocation before
\* position i of the log.
CreatedBefore(i) ==
    {log[j].id : j \in {k \in Issued("create") : k < i /\ log[k].result = "ok"}}

\* The ids deleted by the delete call of the invocation, if it was carried out.
DeletedInStepOne ==
    UNION {{log[i].ids[k] : k \in 1..Len(log[i].ids)} :
              i \in {j \in Issued("delete") : log[j].result = "ok"}}

\* C31: every create call with a parentId names a category that exists on
\* the remote when the call is issued, one listed at the start and not
\* deleted by the invocation or one the invocation created before; the
\* remote refuses no create call; no path the create step looks up in the
\* path->id map is the path of a category put in the delete call.
C31_ParentExists ==
    (Returned /\ Mutating # {}) =>
        LET rows == Rows(Before)
            deleted == DeletedIds
            kept == {r.id : r \in {q \in rows : q.id \notin deleted}}
        IN  /\ \A i \in Issued("create") :
                  /\ log[i].result # "refused"
                  /\ log[i].parentId # 0 =>
                        /\ log[i].parentId \in kept \cup CreatedBefore(i)
                        /\ log[i].parentId \notin DeletedInStepOne
            /\ Issued("create") # {} =>
                  \A r \in rows : r.id \in deleted =>
                      \A t \in TargetCategories : r.path \notin PathAndAncestors(t)

\* A call that deletes one category and creates another below a listed one
\* and a third below the created one.
C31_Witness ==
    /\ pc = "returned" /\ err = "ok" /\ DeletedInStepOne # {}
    /\ \E i, j \in Issued("create") :
          /\ log[i].parentId \in {r.id : r \in Rows(Before)}
          /\ log[j].parentId = log[i].id

C33_ValidationFirst ==
    (Returned /\ err \in {"RootImmutable", "RootCreation"}) =>
        Mutating = {} /\ remote = pre

CachedMutations ==
    {i \in 1..Len(log) :
        /\ log[i].op \in {"file_delete", "delete", "update", "create", "upload"}
        /\ log[i].result = "ok"}

\* What CashCtrlClient.upload_file gives for the arguments and the server
\* responses of the last upload_file of the cached client; a prepare call
\* that was answered has taken one file id.
BaseUpload ==
    upload_file([tree |-> pre,
                 nextId |-> IF args.failAt = 1 THEN nextId ELSE nextId - 1,
                 files |-> files_before, bin |-> recycle_bin, log |-> <<>>, err |-> "ok"],
                FALSE, args.name, args.category, args.id, args.failAt)

\* C35: upload_file of the cached client ends as upload_file of the base
\* client does for the same arguments and server responses and returns the
\* same value, the id of the file created or replaced.
C35_SameValue ==
    (pc = "mutated" /\ args.op = "upload_file") =>
        /\ err = BaseUpload.state.err
        /\ return_value = BaseUpload.value
        /\ args.failAt = 0 =>
              /\ args.id # 0 => return_value = Some(args.id)
              /\ args.id = 0 =>
                    \E f \in remote_files \ files_before : return_value = Some(f.id)

\* C36: after mirror_directory, upload_file or update_categories('file') of
\* the cached client issued a call that changed the remote, the files cache
\* is empty when the operation ends, normally or not, and a later list_files
\* returns the table of the remote after the change.
C36_Invalidated ==
    /\ (pc = "mutated" /\ CachedMutations # {}) => ~files_cache.set /\ ~files_cache_time.set
    /\ (pc = "returned" /\ err # "none"
            /\ list_files(pre, files_before) # list_files(remote, remote_files)) =>
          return_value = Some(list_files(remote, remote_files))

\* The requests of the traffic that are the request of the caller, the
\* logout requests and the login requests.
OriginalSends == {i \in 1..Len(traffic) : traffic[i].endpoint = "endpoint"}
LogoutSends ==
    {i \in 1..Len(traffic) : traffic[i].method = "DELETE" /\ traffic[i].endpoint = "PRO/LOGIN"}
LoginSends ==
    {i \in 1..Len(traffic) : traffic[i].method = "POST" /\ traffic[i].endpoint = "PRO/LOGIN"}

\* The call of the caller has ended.
ProffixEnded == ended # "none"

\* C37: a request answered 401 is followed by one logout request, one login
\* and, when the login succeeded, one more send of the same request with the
\* session id of the login, and ProffixAPIError if that answer is not ok;
\* after a request that returned the stored session id is the one its last
\* answer carried; after logout() returned no session id is stored; a
\* request is sent with a session id.
C37_Relogin ==
    ProffixEnded =>
        /\ \A i \in OriginalSends :
              (i = CHOOSE k \in OriginalSends : \A j \in OriginalSends : k <= j) =>
                  /\ traffic[i].session # 0
                  /\ traffic[i].status = 401 =>
                        /\ Len(traffic) >= i + 2
                        /\ i + 1 \in LogoutSends
                        /\ i + 2 \in LoginSends
                        /\ ok(traffic[i + 2].status) =>
                              /\ Len(traffic) = i + 3
                              /\ i + 3 \in OriginalSends
                              /\ traffic[i + 3].session = traffic[i + 2].carried
                              /\ ~ok(traffic[i + 3].status) => ended = "ProffixAPIError"
                              /\ ok(traffic[i + 3].status) => ended = "returned"
                  /\ traffic[i].status # 401 => Len(traffic) = i
        /\ (ended = "returned" /\ OriginalSends # {}) =>
              /\ Len(traffic) \in OriginalSends
              /\ session_id = Session(traffic[Len(traffic)].carried)
        /\ (ended = "returned" /\ OriginalSends = {}) => ~session_id.set

\* C38: every call of request ends, and while it runs the request of the
\* caller was sent at most twice, and at most one logout request and one
\* login request were sent.
C38_Bounded ==
    /\ <>ProffixEnded
    /\ [](OriginalSends # {} =>
             /\ Cardinality(OriginalSends) <= 2
             /\ Cardinality(LogoutSends) <= 1
             /\ Cardinality(LoginSends) <= 1)

====
